---------------------------- MODULE Spec2Model ----------------------------
(***************************************************************************)
(* A model of the egui-map-view widget (src/src/lib.rs): the viewport      *)
(* controller (Map::handle_input), the visible-tile computation            *)
(* (Map::visible_tiles) and the tile cache with its fetch workers          *)
(* (Map::draw_tile).                                                       *)
(*                                                                         *)
(* Arithmetic.  The source computes in f64.  The model computes the same   *)
(* formulas exactly, in fixed point; floating-point rounding is not        *)
(* modelled.  One unit is half a pixel at MAX_ZOOM, so that the world is   *)
(* World units wide and high at every zoom level:                          *)
(*   - a longitude lon (degrees) is the integer lon * World / 360,         *)
(*     in [-Half, Half];                                                   *)
(*   - a latitude lat is the integer (asinh(tan(lat)) / pi) * Half, its    *)
(*     Web-Mercator northing, in [-Half, Half] exactly when lat is in the  *)
(*     Mercator-valid range [-85.0511, 85.0511];                           *)
(*   - a tile coordinate x at zoom z (a real number of tiles) is the       *)
(*     integer x * Den(z), Den(z) being the number of units per tile at    *)
(*     zoom z; a pixel length p at zoom z is p * Px(z) units.              *)
(* Every quantity handle_input computes from integer pixel inputs is an    *)
(* integer in these units, so no division below loses anything.            *)
(***************************************************************************)
EXTENDS Integers, Sequences, FiniteSets, TLC

VARIABLES
    center,     \* Map.center: <<lon, lat>>
    zoom,       \* Map.zoom
    tiles,      \* Map.tiles: TileId -> Tile (Loading(promise) | Loaded | Failed)
    mouse_pos,  \* Map.mouse_pos: Option<(lon, lat)>, <<>> or <<geo>>
    rect,       \* the widget rect the host allocates (fixed in a behaviour)
    fetches,    \* history: TileId -> number of Promise::spawn_thread calls
    repaint,    \* whether the last frame called request_repaint
    last,       \* history: the last frame's input and intermediate results
    frames,     \* number of frames drawn
    done,       \* number of fetch workers that have finished
    areas,      \* AreaLayer.areas: the point list of each polygon
    dragged_object, \* AreaLayer.dragged_object: Option<(area_index, node_index)>
    polylines,  \* DrawingLayer.polylines: the point list of each polyline
    stroke,     \* DrawingLayer.stroke: [width, color]
    texts,      \* TextLayer.texts: the Text values
    editing,    \* TextLayer.editing: Option<EditingText>
    dragged_text_index, \* TextLayer.dragged_text_index: Option<usize>
    op          \* history: the last layer or codec operation, its input and result

\* the Map widget's state, and the state of the layers and codec
mapVars == <<center, zoom, tiles, mouse_pos, rect, fetches, repaint, last,
             frames, done>>

textVars == <<texts, editing, dragged_text_index>>

layerVars == <<areas, dragged_object, polylines, stroke, textVars, op>>

vars == <<center, zoom, tiles, mouse_pos, rect, fetches, repaint, last,
          frames, done, areas, dragged_object, polylines, stroke, texts,
          editing, dragged_text_index, op>>

---------------------------------------------------------------------------
(* Program constants *)

TILE_SIZE == 256
MIN_ZOOM == 0
MAX_ZOOM == 19

(* Bounds of the model *)

\* frames explored in a behaviour of Spec (tile cache)
MaxFrames == 4
\* frames explored in a behaviour of SpecView (viewport controller)
MaxViewFrames == 2
\* fetch workers that finish in a behaviour
MaxDone == 2

---------------------------------------------------------------------------
(* Fixed-point units *)

\* units per pixel at zoom z
Px(z) == 2 ^ (MAX_ZOOM + 1 - z)

\* units per tile at zoom z
Den(z) == TILE_SIZE * Px(z)

\* width of the world in units (the same at every zoom: 2^z tiles of Den(z))
World == TILE_SIZE * 2 ^ (MAX_ZOOM + 1)

Half == World \div 2

\* f64::floor and f64::ceil of the tile coordinate n / Den(z)
Floor(n, d) == n \div d

Ceil(n, d) == -((-n) \div d)

\* f64::clamp
Clamp(v, lo, hi) == IF v < lo THEN lo ELSE IF v > hi THEN hi ELSE v

\* Option<T>
None == << >>

Some(v) == <<v>>

---------------------------------------------------------------------------
(* Coordinate conversions, src/src/lib.rs 479-499.  A tile coordinate at   *)
(* zoom z is held as its numerator over Den(z) = World / 2^z, so the       *)
(* factor 2^zoom of the source is carried by the denominator and the       *)
(* zoom argument selects the denominator the numerator is read with.       *)

\* (lon + 180) / 360 * 2^zoom
lon_to_x(lon, z) == lon + Half

\* (1 - asinh(tan(lat)) / pi) / 2 * 2^zoom
lat_to_y(lat, z) == Half - lat

\* x / 2^zoom * 360 - 180
x_to_lon(x, z) == x - Half

\* atan(sinh(pi - 2 pi y / 2^zoom))
y_to_lat(y, z) == Half - y

\* 2.0_f64.powi(zoom) tiles
world_size_in_tiles(z) == 2 ^ z * Den(z)

---------------------------------------------------------------------------
(* egui::Rect and the per-frame Response *)

Rect(minx, miny, w, h) == [min |-> <<minx, miny>>, w |-> w, h |-> h]

\* a pointer position given relative to the rect's top-left corner
At(r, rx, ry) == <<r.min[1] + rx, r.min[2] + ry>>

\* Response: dragged(), drag_delta(), double_clicked(), interact_pointer_pos(),
\* hovered(), hover_pos(), and the sign of raw_scroll_delta.y
Response(dragged, delta, dbl, ptr, hovered, hover, scroll) ==
    [dragged |-> dragged, drag_delta |-> delta, double_clicked |-> dbl,
     interact_pointer_pos |-> ptr, hovered |-> hovered, hover_pos |-> hover,
     scroll |-> scroll]

NoInput == Response(FALSE, <<0, 0>>, FALSE, None, FALSE, None, 0)

---------------------------------------------------------------------------
(* Map::handle_input, src/src/lib.rs 154-284, in its three parts *)

\* one axis of the pan clamp (lib.rs 169-184): v is the view size in units
PanAxisUnclamped(new_center, v, z) == new_center

PanAxis(new_center, v, z) ==
    LET min_center == v \div 2
        max_center == world_size_in_tiles(z) - v \div 2
    IN  IF min_center > max_center
        THEN world_size_in_tiles(z) \div 2
        ELSE Clamp(new_center, min_center, max_center)

\* lib.rs 156-190: the center after the pan part
HandlePanAlways(c, z, r, resp) ==
    LET new_center_x == lon_to_x(c[1], z) - resp.drag_delta[1] * Px(z)
        new_center_y == lat_to_y(c[2], z) - resp.drag_delta[2] * Px(z)
    IN  <<x_to_lon(PanAxis(new_center_x, r.w * Px(z), z), z),
          y_to_lat(PanAxis(new_center_y, r.h * Px(z), z), z)>>

HandlePan(c, z, r, resp) ==
    IF resp.dragged
    THEN LET center_in_tiles_x == lon_to_x(c[1], z)
             center_in_tiles_y == lat_to_y(c[2], z)
             new_center_x == center_in_tiles_x - resp.drag_delta[1] * Px(z)
             new_center_y == center_in_tiles_y - resp.drag_delta[2] * Px(z)
             view_size_in_tiles_x == r.w * Px(z)
             view_size_in_tiles_y == r.h * Px(z)
         IN  <<x_to_lon(PanAxis(new_center_x, view_size_in_tiles_x, z), z),
               y_to_lat(PanAxis(new_center_y, view_size_in_tiles_y, z), z)>>
    ELSE c

\* (self.zoom + 1).clamp(MIN_ZOOM, MAX_ZOOM), lib.rs 195
DblZoomUnclamped(z) == z + 1

DblZoom(z) == Clamp(z + 1, MIN_ZOOM, MAX_ZOOM)

\* the tile coordinate under a pointer position (lib.rs 199-208, 223-232)
TargetXY(c, z, r, pos) ==
    LET mouse_rel == <<pos[1] - r.min[1], pos[2] - r.min[2]>>
        center_x == lon_to_x(c[1], z)
        center_y == lat_to_y(c[2], z)
    IN  <<center_x + (2 * mouse_rel[1] - r.w) * (Px(z) \div 2),
          center_y + (2 * mouse_rel[2] - r.h) * (Px(z) \div 2)>>

\* lib.rs 193-218: center and zoom after the double-click part
HandleDoubleClickKeepCenter(c, z, r, resp) ==
    IF resp.double_clicked /\ resp.interact_pointer_pos # None
    THEN [center |-> c, zoom |-> DblZoom(z)]
    ELSE [center |-> c, zoom |-> z]

HandleDoubleClick(c, z, r, resp) ==
    IF resp.double_clicked /\ resp.interact_pointer_pos # None
    THEN LET pointer_pos == resp.interact_pointer_pos[1]
             new_zoom == DblZoom(z)
             target == TargetXY(c, z, r, pointer_pos)
         IN  IF new_zoom # z
             THEN [center |-> <<x_to_lon(target[1], z), y_to_lat(target[2], z)>>,
                   zoom |-> new_zoom]
             ELSE [center |-> c, zoom |-> z]
    ELSE [center |-> c, zoom |-> z]

\* lib.rs 240-253: the zoom level a scroll event asks for
ScrollZoomNoReject(z, r, scroll) == Clamp(z + scroll, MIN_ZOOM, MAX_ZOOM)

ScrollZoom(z, r, scroll) ==
    LET new_zoom == Clamp(z + scroll, MIN_ZOOM, MAX_ZOOM)
        world_pixel_size == 2 ^ new_zoom * TILE_SIZE
    IN  IF scroll < 0 /\ (world_pixel_size < r.w \/ world_pixel_size < r.h)
        THEN z
        ELSE new_zoom

\* lib.rs 221-283: center, zoom and mouse_pos after the hover and scroll part
HandleHoverKeepCenter(c, z, r, resp) ==
    IF resp.hovered /\ resp.hover_pos # None
    THEN LET target == TargetXY(c, z, r, resp.hover_pos[1])
             geo == <<x_to_lon(target[1], z), y_to_lat(target[2], z)>>
         IN  [center |-> c,
              zoom |-> IF resp.scroll # 0 THEN ScrollZoom(z, r, resp.scroll) ELSE z,
              mouse_pos |-> Some(geo)]
    ELSE [center |-> c, zoom |-> z, mouse_pos |-> None]

HandleHover(c, z, r, resp) ==
    IF resp.hovered /\ resp.hover_pos # None
    THEN LET mouse_pos_ == resp.hover_pos[1]
             target == TargetXY(c, z, r, mouse_pos_)
             geo == <<x_to_lon(target[1], z), y_to_lat(target[2], z)>>
             new_zoom == IF resp.scroll # 0 THEN ScrollZoom(z, r, resp.scroll) ELSE z
         IN  IF new_zoom # z
             THEN LET target_lon == x_to_lon(target[1], z)
                      target_lat == y_to_lat(target[2], z)
                      new_target_x == lon_to_x(target_lon, new_zoom)
                      new_target_y == lat_to_y(target_lat, new_zoom)
                      mrx == 2 * (mouse_pos_[1] - r.min[1]) - r.w
                      mry == 2 * (mouse_pos_[2] - r.min[2]) - r.h
                      new_center_x == new_target_x - mrx * (Px(new_zoom) \div 2)
                      new_center_y == new_target_y - mry * (Px(new_zoom) \div 2)
                  IN  [center |-> <<x_to_lon(new_center_x, new_zoom),
                                    y_to_lat(new_center_y, new_zoom)>>,
                       zoom |-> new_zoom, mouse_pos |-> Some(geo)]
             ELSE [center |-> c, zoom |-> z, mouse_pos |-> Some(geo)]
    ELSE [center |-> c, zoom |-> z, mouse_pos |-> None]

\* the whole of handle_input, with its intermediate results
handle_input(c, z, r, resp) ==
    LET panned == HandlePan(c, z, r, resp)
        dbl == HandleDoubleClick(panned, z, r, resp)
        hov == HandleHover(dbl.center, dbl.zoom, r, resp)
    IN  [center |-> hov.center, zoom |-> hov.zoom, mouse_pos |-> hov.mouse_pos,
         afterPan |-> panned, afterDbl |-> dbl]

---------------------------------------------------------------------------
(* MapProjection, src/src/projection.rs 9-59.  An egui::Pos2 holds f32      *)
(* pixels.  A screen position of a projector at zoom z is held in units,   *)
(* Px(z) units to the pixel, so that (tile_x - center_x) * TILE_SIZE       *)
(* pixels is the difference of the two tile coordinates' numerators.  An   *)
(* f32 has 24 significant bits: a value is rounded to 24 significant bits  *)
(* where the source casts to f32 or computes in f32; the f64 steps are     *)
(* exact.                                                                  *)

\* the spacing of the f32 values around n, for 2^24 <= n < 2^30: 2^e where
\* 2^(23+e) <= n < 2^(24+e)
Ulp(n) == 2 ^ (CHOOSE e \in 1..6 : n \div 2 ^ (23 + e) = 1)

\* `as f32`, and the result of an f32 operation: round to nearest, ties to
\* even
RoundF32(m) ==
    LET nearest(q, lo) ==
            IF 2 * (m - lo) < q THEN lo
            ELSE IF 2 * (m - lo) > q THEN lo + q
            ELSE IF (lo \div q) % 2 = 0 THEN lo ELSE lo + q
        spaced(q) == nearest(q, (m \div q) * q)
    IN  spaced(Ulp(m))

AsF32(n) ==
    IF -(2 ^ 24) <= n /\ n <= 2 ^ 24 THEN n
    ELSE LET sign == IF n > 0 THEN 1 ELSE -1
         IN  sign * RoundF32(sign * n)

\* the Pos2 of a whole pixel on the screen of a projector at zoom z
Pos2(z, pixel) == <<pixel[1] * Px(z), pixel[2] * Px(z)>>

MapProjection(z, c, r) ==
    [zoom |-> z, center_lon |-> c[1], center_lat |-> c[2], widget_rect |-> r]

\* widget_rect.min and widget_rect.center()
RectMin(p) == Pos2(p.zoom, p.widget_rect.min)

RectCenter(p) ==
    LET r == p.widget_rect
    IN  <<(2 * r.min[1] + r.w) * (Px(p.zoom) \div 2),
          (2 * r.min[2] + r.h) * (Px(p.zoom) \div 2)>>

\* projection.rs 28-40: the screen position of a geographic position
projectFromMin(p, geo_pos) ==
    LET dx == lon_to_x(geo_pos[1], p.zoom) - lon_to_x(p.center_lon, p.zoom)
        dy == lat_to_y(geo_pos[2], p.zoom) - lat_to_y(p.center_lat, p.zoom)
    IN  <<AsF32(RectMin(p)[1] + AsF32(dx)), AsF32(RectMin(p)[2] + AsF32(dy))>>

project(p, geo_pos) ==
    LET center_x == lon_to_x(p.center_lon, p.zoom)
        center_y == lat_to_y(p.center_lat, p.zoom)
        tile_x == lon_to_x(geo_pos[1], p.zoom)
        tile_y == lat_to_y(geo_pos[2], p.zoom)
        dx == tile_x - center_x
        dy == tile_y - center_y
        widget_center == RectCenter(p)
    IN  <<AsF32(widget_center[1] + AsF32(dx)), AsF32(widget_center[2] + AsF32(dy))>>

\* projection.rs 43-58: the geographic position under a screen position
unproject(p, screen_pos) ==
    LET r == p.widget_rect
        rel_pos == <<AsF32(screen_pos[1] - RectMin(p)[1]),
                     AsF32(screen_pos[2] - RectMin(p)[2])>>
        widget_center_x == r.w * (Px(p.zoom) \div 2)
        widget_center_y == r.h * (Px(p.zoom) \div 2)
        center_x == lon_to_x(p.center_lon, p.zoom)
        center_y == lat_to_y(p.center_lat, p.zoom)
        target_x == center_x + (rel_pos[1] - widget_center_x)
        target_y == center_y + (rel_pos[2] - widget_center_y)
    IN  <<x_to_lon(target_x, p.zoom), y_to_lat(target_y, p.zoom)>>

---------------------------------------------------------------------------
(* Map::visible_tiles, src/src/lib.rs 300-327 *)

\* `x as u32` of an i32: the 32-bit pattern as <<high 16 bits, low 16 bits>>
AsU32(i) ==
    IF i >= 0
    THEN <<i \div 65536, i % 65536>>
    ELSE <<65535 - ((-i - 1) \div 65536), 65535 - ((-i - 1) % 65536)>>

TileId(z, x, y) == [z |-> z, x |-> AsU32(x), y |-> AsU32(y)]

\* the inclusive index range of one axis: c is the center's tile coordinate
\* and v the widget's size in pixels
AxisMinNoFloor(c, v, z) == Ceil(c - (v * Px(z)) \div 2, Den(z))

AxisMin(c, v, z) == Floor(c - (v * Px(z)) \div 2, Den(z))

AxisMax(c, v, z) == Ceil(c + (v * Px(z)) \div 2, Den(z))

\* the tiles in iteration order: x outer, y inner
visible_tiles(c, z, r) ==
    LET center_x == lon_to_x(c[1], z)
        center_y == lat_to_y(c[2], z)
        x_min == AxisMin(center_x, r.w, z)
        y_min == AxisMin(center_y, r.h, z)
        x_max == AxisMax(center_x, r.w, z)
        y_max == AxisMax(center_y, r.h, z)
        ny == y_max - y_min + 1
        n == (x_max - x_min + 1) * ny
    IN  [i \in 1..n |->
            TileId(z, x_min + ((i - 1) \div ny), y_min + ((i - 1) % ny))]

Range(f) == {f[i] : i \in DOMAIN f}

---------------------------------------------------------------------------
(* Map::draw_tile, src/src/lib.rs 330-444 *)

Loading(promise) == [tag |-> "Loading", promise |-> promise]

Loaded == [tag |-> "Loaded"]

Failed == [tag |-> "Failed"]

\* lib.rs 337-363: whether draw_tile spawns a fetch for tile_id
NeedsFetchWhileLoading(tl, tile_id) ==
    tile_id \notin DOMAIN tl \/ tl[tile_id].tag = "Loading"

NeedsFetchRetryFailed(tl, tile_id) ==
    tile_id \notin DOMAIN tl \/ tl[tile_id].tag = "Failed"

NeedsFetch(tl, tile_id) == tile_id \notin DOMAIN tl

\* lib.rs 368-385: the entry after the poll of its promise
PollNever(entry) == entry

Poll(entry) ==
    IF entry.tag = "Loading"
    THEN CASE entry.promise = "ok" -> Loaded
           [] entry.promise = "err" -> Failed
           [] OTHER -> entry
    ELSE entry

\* draw_tile without the request_repaint of lib.rs 411
DrawTileNoRepaint(tl, tile_id) ==
    LET spawn == NeedsFetch(tl, tile_id)
        tile_state == Poll(IF spawn THEN Loading("pending") ELSE tl[tile_id])
    IN  [tile_state |-> tile_state, spawned |-> spawn, repaint |-> FALSE]

\* the effect of one call on the cache tl: the entry of tile_id after it,
\* whether it spawned a download_tile thread, and whether it asked for a
\* repaint (lib.rs 411).  The call reads and writes no other entry.
draw_tile(tl, tile_id) ==
    LET spawn == NeedsFetch(tl, tile_id)
        tile_state == Poll(IF spawn THEN Loading("pending") ELSE tl[tile_id])
    IN  [tile_state |-> tile_state, spawned |-> spawn,
         repaint |-> tile_state.tag = "Loading"]

\* the tiles a frame draws: every visible tile
Drawn(c, z, r) == Range(visible_tiles(c, z, r))

\* draw_tile for each tile of ids in turn; fe counts the threads spawned
\* per tile
DrawEach(tl, fe, ids) ==
    [tiles |-> [t \in DOMAIN tl \cup ids |->
                  IF t \in ids THEN draw_tile(tl, t).tile_state ELSE tl[t]],
     fetches |-> [t \in DOMAIN fe \cup ids |->
                  (IF t \in DOMAIN fe THEN fe[t] ELSE 0)
                  + (IF t \in ids /\ draw_tile(tl, t).spawned THEN 1 ELSE 0)],
     repaint |-> \E t \in ids : draw_tile(tl, t).repaint]

\* a frame that gives up on its other tiles when a visible tile has failed
DrawStopOnError(tl, fe, c, z, r) ==
    LET ids == Drawn(c, z, r)
        failing == {t \in ids \cap DOMAIN tl : tl[t] = Loading("err")}
    IN  DrawEach(tl, fe, IF failing = {} THEN ids ELSE failing)

\* a frame that keeps only the entries of the tiles it draws
DrawEvicting(tl, fe, c, z, r) ==
    LET kept(d, ids) ==
            [tiles |-> [t \in ids |-> d.tiles[t]], fetches |-> d.fetches,
             repaint |-> d.repaint]
    IN  kept(DrawEach(tl, fe, Drawn(c, z, r)), Drawn(c, z, r))

\* Map::draw_map_and_attribution, lib.rs 287-297: draw_tile for each visible
\* tile in turn
draw_map_and_attribution(tl, fe, c, z, r) == DrawEach(tl, fe, Drawn(c, z, r))

---------------------------------------------------------------------------
(* Actions *)

\* impl Widget for &mut Map, lib.rs 501-511: handle_input and then
\* draw_map_and_attribution
FrameStep(resp) ==
    LET drawn(h, d) ==
            /\ center' = h.center
            /\ zoom' = h.zoom
            /\ mouse_pos' = h.mouse_pos
            /\ tiles' = d.tiles
            /\ fetches' = d.fetches
            /\ repaint' = d.repaint
            /\ last' = [resp |-> resp,
                        pre |-> [center |-> center, zoom |-> zoom, tiles |-> tiles],
                        afterPan |-> h.afterPan, afterDbl |-> h.afterDbl]
        handled(h) ==
            drawn(h, draw_map_and_attribution(tiles, fetches, h.center, h.zoom, rect))
    IN  /\ handled(handle_input(center, zoom, rect, resp))
        /\ UNCHANGED <<rect, done>>
        /\ UNCHANGED layerVars

\* one frame
Frame(resp) == FrameStep(resp) /\ frames' = frames + 1

\* the download_tile thread of a tile (lib.rs 340-361) ends with an image
FetchOk(t) ==
    /\ done < MaxDone
    /\ tiles[t].tag = "Loading" /\ tiles[t].promise = "pending"
    /\ tiles' = [tiles EXCEPT ![t] = Loading("ok")]
    /\ done' = done + 1
    /\ UNCHANGED <<center, zoom, mouse_pos, rect, fetches, repaint, last, frames>>
    /\ UNCHANGED layerVars

\* the download_tile thread of a tile ends with an error (connection, HTTP
\* status or image decoding)
FetchErr(t) ==
    /\ done < MaxDone
    /\ tiles[t].tag = "Loading" /\ tiles[t].promise = "pending"
    /\ tiles' = [tiles EXCEPT ![t] = Loading("err")]
    /\ done' = done + 1
    /\ UNCHANGED <<center, zoom, mouse_pos, rect, fetches, repaint, last, frames>>
    /\ UNCHANGED layerVars

---------------------------------------------------------------------------
(* Initial states.  Map::new (lib.rs 141-151) takes center and zoom from   *)
(* the configuration and starts with an empty cache and no mouse position. *)

\* a center as a pan leaves it: c clamped, or force-centered, for r at zoom z
Panned(c, z, r) ==
    HandlePan(c, z, r, Response(TRUE, <<0, 0>>, FALSE, None, FALSE, None, 0))

\* egui::Color32, by its red, green, blue and alpha bytes
Color32(r, g, b, a) == <<r, g, b, a>>

RED == Color32(255, 0, 0, 255)

BLUE == Color32(0, 0, 255, 255)

BLACK == Color32(0, 0, 0, 255)

TRANSPARENT == Color32(0, 0, 0, 0)

\* egui::Stroke
Stroke(width, color) == [width |-> width, color |-> color]

\* TextLayer::default (text.rs 144-154): no texts, no draft, nothing dragged
NoTexts ==
    /\ texts = << >>
    /\ editing = None
    /\ dragged_text_index = None

\* AreaLayer::new (area.rs 133-141) and DrawingLayer::default (drawing.rs
\* 218-226): no shapes, nothing dragged, a red stroke of width 2
NoLayers ==
    /\ areas = << >>
    /\ dragged_object = None
    /\ polylines = << >>
    /\ stroke = Stroke(2, RED)
    /\ NoTexts
    /\ op = [kind |-> "none"]

InitMap(centers, zooms, rects) ==
    /\ NoLayers
    /\ rect \in rects
    /\ zoom \in zooms
    /\ center \in {Panned(c, zoom, rect) : c \in centers}
    /\ tiles = [t \in {} |-> Failed]
    /\ fetches = [t \in {} |-> 0]
    /\ mouse_pos = None
    /\ repaint = FALSE
    /\ last = [resp |-> NoInput,
               pre |-> [center |-> center, zoom |-> zoom, tiles |-> tiles],
               afterPan |-> center, afterDbl |-> [center |-> center, zoom |-> zoom]]
    /\ frames = 0
    /\ done = 0

\* the world's center, its north-west corner and its south-east corner
Origin == <<0, 0>>

NorthWest == <<-Half, Half>>

SouthEast == <<Half, -Half>>

---------------------------------------------------------------------------
(* Spec: the tile cache.  A small widget over a small world, left idle or  *)
(* panned to and fro, with the fetch workers finishing at any time.        *)

CacheRect == Rect(100, 200, 128, 128)

CacheInputs ==
    { NoInput,
      Response(TRUE, <<-256, 0>>, FALSE, None, FALSE, None, 0),
      Response(TRUE, <<256, 0>>, FALSE, None, FALSE, None, 0) }

Init == InitMap({NorthWest}, {MIN_ZOOM + 1}, {CacheRect})

DrawFrame == frames < MaxFrames /\ \E resp \in CacheInputs : Frame(resp)

WorkerOk == \E t \in DOMAIN tiles : FetchOk(t)

WorkerErr == \E t \in DOMAIN tiles : FetchErr(t)

Next == DrawFrame \/ WorkerOk \/ WorkerErr

Spec == Init /\ [][Next]_vars

---------------------------------------------------------------------------
(* SpecLive: the tile cache with the frames egui schedules.  A frame that  *)
(* called request_repaint (lib.rs 411) is followed by another frame, also  *)
(* when no input arrives; the user pans for a bounded number of frames and *)
(* the fetch workers finish at any time or never.                          *)

MaxLiveFrames == 2

\* the frame egui runs because the last frame asked for a repaint; frames
\* counts up to MaxLiveFrames
RepaintFrame ==
    /\ repaint
    /\ FrameStep(NoInput)
    /\ frames' = IF frames < MaxLiveFrames THEN frames + 1 ELSE frames

UserFrame == frames < MaxLiveFrames /\ \E resp \in CacheInputs : Frame(resp)

NextLive == UserFrame \/ RepaintFrame \/ WorkerOk \/ WorkerErr

\* a repaint has been requested and the fetch of a visible tile has completed
PollDue ==
    /\ repaint
    /\ \E t \in Drawn(center, zoom, rect) \cap DOMAIN tiles :
          tiles[t].tag = "Loading" /\ tiles[t].promise # "pending"

\* egui runs the frame it was asked for: weak fairness of RepaintFrame,
\* wherever a completed fetch waits to be polled
LiveFair == []<>(~PollDue) \/ []<><<RepaintFrame>>_vars

SpecLive == Init /\ [][NextLive]_vars /\ LiveFair

---------------------------------------------------------------------------
(* SpecView: the viewport controller.  Larger widgets, every kind of       *)
(* gesture, zoom levels at both ends of the range; no fetch finishes.      *)

ViewRects == {Rect(100, 200, 512, 256), Rect(0, 0, 150, 300)}

ViewZooms == {MIN_ZOOM, MIN_ZOOM + 1, MAX_ZOOM - 1, MAX_ZOOM}

Deltas == {<<-300, 40>>, <<256, -128>>, <<1000, 1000>>, <<-1000, -1000>>}

\* the widget's top-left corner, its center, and a point off both
Pointers(r) ==
    {At(r, 0, 0), At(r, r.w \div 2, r.h \div 2), At(r, (3 * r.w) \div 4, r.h \div 4)}

ViewInputs(r) ==
    \* no gesture; a hover or a double-click that egui reports no position for
    {NoInput, Response(FALSE, <<0, 0>>, FALSE, None, TRUE, None, 0),
     Response(FALSE, <<0, 0>>, TRUE, None, FALSE, None, 0),
     Response(FALSE, <<0, 0>>, FALSE, None, TRUE, Some(At(r, 0, 0)), 0)}
    \* a scroll event under the pointer
    \cup {Response(FALSE, <<0, 0>>, FALSE, None, TRUE, Some(p), s) :
            p \in Pointers(r), s \in {-1, 1}}
    \* a drag, the pointer off the widget or over it with a scroll event
    \cup {Response(TRUE, d, FALSE, None, FALSE, None, 0) : d \in Deltas}
    \cup {Response(TRUE, <<-300, 40>>, FALSE, None, TRUE,
                   Some(At(r, (3 * r.w) \div 4, r.h \div 4)), s) : s \in {-1, 1}}
    \* a double-click, alone or with a scroll event in the same frame
    \cup {Response(FALSE, <<0, 0>>, TRUE, Some(p), TRUE, Some(p), 0) :
            p \in Pointers(r)}
    \cup {Response(FALSE, <<0, 0>>, TRUE, Some(At(r, 0, 0)), TRUE,
                   Some(At(r, 0, 0)), s) : s \in {-1, 1}}

InitView == InitMap({Origin, NorthWest, SouthEast}, ViewZooms, ViewRects)

NextView == frames < MaxViewFrames /\ \E resp \in ViewInputs(rect) : Frame(resp)

SpecView == InitView /\ [][NextView]_vars

---------------------------------------------------------------------------
(* State functions the properties below are stated with *)

\* the tiles the last frame drew
Visible == Drawn(center, zoom, rect)

\* the tiles the frame before the last one drew (the viewport the last
\* frame started from)
VisibleBefore == Drawn(last.pre.center, last.pre.zoom, rect)

\* the cache as the last frame found it
Before == last.pre.tiles

\* the promise of an entry is ready (the worker has finished)
Ready(entry) == entry.tag = "Loading" /\ entry.promise # "pending"

---------------------------------------------------------------------------
(* Tile cache properties, checked under Spec *)

\* C1: at most one fetch is ever launched per TileId.  Every entry of the
\* cache, whatever its state and whether its tile is visible or not, has had
\* exactly one download thread spawned for it, in every reachable state: a
\* tile that is already in the cache never gets a second fetch, also when it
\* leaves and re-enters the visible set, and a Failed entry is never retried.
C1_OneFetchPerTile ==
    /\ DOMAIN fetches = DOMAIN tiles
    /\ \A t \in DOMAIN tiles : fetches[t] = 1

\* C1 witness: a tile that was fetched earlier, was out of the view in the
\* frame before the last one, is drawn again and is Failed
C1_Witness ==
    \E t \in Visible :
        /\ t \in DOMAIN Before /\ t \notin VisibleBefore
        /\ Before[t].tag = "Failed" /\ tiles[t].tag = "Failed"
        /\ fetches[t] = 1

\* C2: the state of a cache entry changes only Loading->Loaded or
\* Loading->Failed.  In every step no entry is removed, a Loaded entry stays
\* Loaded, a Failed entry stays Failed, and an entry that is Loading after
\* the step was Loading (or absent) before it.
C2_OneWay ==
    [][\A t \in DOMAIN tiles :
          /\ t \in DOMAIN tiles'
          /\ tiles[t].tag = "Loaded" => tiles'[t].tag = "Loaded"
          /\ tiles[t].tag = "Failed" => tiles'[t].tag = "Failed"
          /\ tiles'[t].tag = "Loading" => tiles[t].tag = "Loading"]_vars

\* C2 witness: a Loaded entry and a Failed entry that the last frame drew
\* again
C2_Witness ==
    \E t, u \in Visible \cap DOMAIN Before :
        /\ Before[t].tag = "Loaded" /\ tiles[t].tag = "Loaded"
        /\ Before[u].tag = "Failed" /\ tiles[u].tag = "Failed"

\* C3 as claimed: every entry whose fetch had completed when a frame began
\* is Loaded or Failed after that frame, visible or not
C3_Original ==
    frames >= 1 =>
        \A t \in DOMAIN Before : Ready(Before[t]) => tiles[t].tag # "Loading"

\* C3 amended: a frame polls the Loading entries of the tiles it draws and no
\* others.  An entry whose fetch had completed when the frame began is Loaded
\* (fetch succeeded) or Failed (fetch failed) after the frame if its tile is
\* visible in that frame; if its tile is out of view the entry stays Loading
\* and keeps its completed promise.
C3_VisiblePolled ==
    frames >= 1 =>
        \A t \in DOMAIN Before :
            Ready(Before[t]) =>
                IF t \in Visible
                THEN tiles[t].tag =
                        (IF Before[t].promise = "ok" THEN "Loaded" ELSE "Failed")
                ELSE tiles[t] = Before[t]

\* C3 witness: an entry whose fetch completed while its tile was out of view,
\* resolved by the frame in which the tile is visible again
C3_Witness ==
    \E t \in Visible \cap DOMAIN Before :
        /\ t \notin VisibleBefore
        /\ Ready(Before[t]) /\ Before[t].promise = "ok"
        /\ tiles[t].tag = "Loaded"

\* C4: a fetch that fails or never completes affects only its own entry.
\* Whatever the other entries of the cache are, a frame turns every visible
\* entry whose fetch has succeeded into Loaded and every visible entry whose
\* fetch has failed into Failed, and it ends with the entries whose fetch has
\* not completed still Loading: it does not wait for them.  (Frame has no
\* enabling condition on the cache at all.)
C4_FailureIsolated ==
    frames >= 1 =>
        \A t \in Visible \cap DOMAIN Before :
            /\ Before[t] = Loading("ok") => tiles[t].tag = "Loaded"
            /\ Before[t] = Loading("err") => tiles[t].tag = "Failed"
            /\ Before[t] = Loading("pending") => tiles[t].tag = "Loading"

\* C4 witness: one frame left a tile Failed, a tile whose fetch is still
\* pending Loading, and resolved a third tile to Loaded
C4_Witness ==
    \E t, u, v \in Visible \cap DOMAIN Before :
        /\ tiles[t].tag = "Failed"
        /\ Before[u] = Loading("pending") /\ tiles[u] = Loading("pending")
        /\ Before[v] = Loading("ok") /\ tiles[v].tag = "Loaded"
        /\ frames < MaxFrames

---------------------------------------------------------------------------
(* Viewport properties, checked under SpecView *)

\* the world, 256 * 2^z pixels, is at least as large as the widget on an axis
\* of v pixels
WorldCovers(z, v) == TILE_SIZE * 2 ^ z >= v

\* the last frame's input
Resp == last.resp

\* the zoom change of the last frame's double-click part and scroll part
DblStep == last.afterDbl.zoom - last.pre.zoom

ScrollStep == zoom - last.afterDbl.zoom

\* C5: the zoom stays within [MIN_ZOOM, MAX_ZOOM] = [0, 19]; the double-click
\* of a frame raises it by 0 or 1 and the scroll event of a frame changes it
\* by -1, 0 or 1.
C5_ZoomInBounds ==
    /\ zoom \in MIN_ZOOM..MAX_ZOOM
    /\ last.afterDbl.zoom \in MIN_ZOOM..MAX_ZOOM
    /\ DblStep \in {0, 1}
    /\ ScrollStep \in {-1, 0, 1}

\* C5 witness: a double-click and a scroll-in in one frame at MAX_ZOOM, both
\* without effect on the zoom
C5_Witness ==
    /\ frames >= 1 /\ Resp.double_clicked /\ Resp.interact_pointer_pos # None
    /\ Resp.hovered /\ Resp.scroll = 1
    /\ last.pre.zoom = MAX_ZOOM /\ zoom = MAX_ZOOM

\* the center's tile coordinate c keeps an axis of v pixels inside the world
AxisInside(c, z, v) ==
    (v * Px(z)) \div 2 <= c /\ c <= world_size_in_tiles(z) - (v * Px(z)) \div 2

\* C6 as claimed: on every axis where the world is at least as large as the
\* widget the viewport does not extend beyond the world's edges, and the
\* center's longitude and latitude are within [-180, 180] and the
\* Mercator-valid range.
C6_ViewportInsideWorld ==
    /\ WorldCovers(zoom, rect.w) =>
          /\ AxisInside(lon_to_x(center[1], zoom), zoom, rect.w)
          /\ -Half <= center[1] /\ center[1] <= Half
    /\ WorldCovers(zoom, rect.h) =>
          /\ AxisInside(lat_to_y(center[2], zoom), zoom, rect.h)
          /\ -Half <= center[2] /\ center[2] <= Half

\* one axis of C7: p is the dragged position, c the center's tile coordinate
\* after the pan
PanAxisOk(p, c, z, v) ==
    IF WorldCovers(z, v)
    THEN /\ AxisInside(c, z, v)
         /\ AxisInside(p, z, v) => c = p
         /\ p < (v * Px(z)) \div 2 => c = (v * Px(z)) \div 2
         /\ p > world_size_in_tiles(z) - (v * Px(z)) \div 2
              => c = world_size_in_tiles(z) - (v * Px(z)) \div 2
    ELSE 2 * c = world_size_in_tiles(z)

\* C7: after the pan of a frame, on each axis, the center's tile coordinate
\* is the dragged position clamped to [view/2, 2^zoom - view/2] if the world
\* is at least as large as the viewport, and 2^zoom / 2 if it is smaller;
\* a frame with a pan and no zoom change ends with that center.
C7_PanClamps ==
    frames >= 1 /\ Resp.dragged =>
        LET z == last.pre.zoom
            px == lon_to_x(last.pre.center[1], z) - Resp.drag_delta[1] * Px(z)
            py == lat_to_y(last.pre.center[2], z) - Resp.drag_delta[2] * Px(z)
        IN  /\ PanAxisOk(px, lon_to_x(last.afterPan[1], z), z, rect.w)
            /\ PanAxisOk(py, lat_to_y(last.afterPan[2], z), z, rect.h)
            /\ zoom = z => center = last.afterPan

\* C7 witness: a pan that is force-centered on the x axis (world smaller than
\* the widget) and clamped at the world's edge on the y axis
C7_Witness ==
    /\ frames >= 1 /\ Resp.dragged /\ zoom = last.pre.zoom
    /\ ~WorldCovers(zoom, rect.w) /\ WorldCovers(zoom, rect.h)
    /\ lat_to_y(center[2], zoom) = (rect.h * Px(zoom)) \div 2
    /\ lat_to_y(last.pre.center[2], zoom) - Resp.drag_delta[2] * Px(zoom)
          < (rect.h * Px(zoom)) \div 2

\* the last frame's double-click raised the zoom by one
DblZoomed ==
    /\ frames >= 1 /\ Resp.double_clicked /\ Resp.interact_pointer_pos # None
    /\ DblStep = 1

\* the projector before and after the double-click part of the last frame
ProjBeforeDbl == MapProjection(last.pre.zoom, last.afterPan, rect)

ProjAfterDbl == MapProjection(last.afterDbl.zoom, last.afterDbl.center, rect)

WidgetCenter == At(rect, rect.w \div 2, rect.h \div 2)

\* C8 as claimed: after a double-click that raises the zoom by one, the
\* geographic point that was under the cursor before the zoom change is
\* under the cursor, at the same widget pixel, after it.
C8_Original ==
    DblZoomed =>
        unproject(ProjAfterDbl, Pos2(ProjAfterDbl.zoom, Resp.interact_pointer_pos[1]))
            = unproject(ProjBeforeDbl,
                        Pos2(ProjBeforeDbl.zoom, Resp.interact_pointer_pos[1]))

\* C8 amended: after a double-click that raises the zoom by one, the
\* geographic point that was under the cursor before the zoom change is the
\* map's center, under the center of the widget; it is under the cursor
\* after the zoom exactly when the cursor is at the center of the widget.
\* (The widgets of the model have even sizes, so that the center is a pixel.)
C8_DoubleClickCenters ==
    DblZoomed =>
        LET ptr == Resp.interact_pointer_pos[1]
            target == unproject(ProjBeforeDbl, Pos2(ProjBeforeDbl.zoom, ptr))
        IN  /\ last.afterDbl.center = target
            /\ unproject(ProjAfterDbl, Pos2(ProjAfterDbl.zoom, WidgetCenter)) = target
            /\ unproject(ProjAfterDbl, Pos2(ProjAfterDbl.zoom, ptr)) = target
                  <=> ptr = WidgetCenter

\* C8 witness: a double-click away from the widget's center that raised the
\* zoom and moved the center
C8_Witness ==
    /\ DblZoomed
    /\ Resp.interact_pointer_pos[1] # WidgetCenter
    /\ last.afterDbl.center # last.afterPan

\* the last frame had a scroll-out event whose resulting world would be
\* smaller than the widget in a dimension
ScrollOutTooSmall ==
    /\ frames >= 1 /\ Resp.hovered /\ Resp.hover_pos # None /\ Resp.scroll = -1
    /\ last.afterDbl.zoom >= 1
    /\ \/ ~WorldCovers(last.afterDbl.zoom - 1, rect.w)
       \/ ~WorldCovers(last.afterDbl.zoom - 1, rect.h)

\* C9: a scroll-out whose resulting world, 256 * 2^(zoom-1) pixels, would be
\* smaller than the widget's width or height leaves the zoom unchanged, and
\* then the center too; and a frame that starts with a world at least as
\* large as the widget in both dimensions ends with such a world, so that
\* with a fixed widget the world never becomes smaller than the widget.
C9_ScrollOutRejected ==
    /\ ScrollOutTooSmall =>
          zoom = last.afterDbl.zoom /\ center = last.afterDbl.center
    /\ WorldCovers(last.pre.zoom, rect.w) /\ WorldCovers(last.pre.zoom, rect.h)
          => WorldCovers(zoom, rect.w) /\ WorldCovers(zoom, rect.h)

\* C9 witness: a rejected scroll-out, from a world that covers the widget
C9_Witness ==
    /\ ScrollOutTooSmall
    /\ WorldCovers(zoom, rect.w) /\ WorldCovers(zoom, rect.h)
    /\ zoom = last.pre.zoom

\* the center is inside the world
CenterInsideWorld ==
    /\ -Half <= center[1] /\ center[1] <= Half
    /\ -Half <= center[2] /\ center[2] <= Half

\* the tile with index t shows on an axis of v pixels whose center has tile
\* coordinate c: its 256 pixels and the widget's v pixels overlap
TileShows(t, c, z, v) ==
    /\ t * Den(z) < c + (v * Px(z)) \div 2
    /\ (t + 1) * Den(z) > c - (v * Px(z)) \div 2

\* the tile indices around the center's tile that can show on an axis
Around(c, z, v) ==
    (Floor(c, Den(z)) - v \div TILE_SIZE - 2)..(Floor(c, Den(z)) + v \div TILE_SIZE + 2)

\* C10: the visible-tile set contains the tile (zoom, floor(center_x),
\* floor(center_y)) that contains the center, and every tile whose 256x256
\* footprint overlaps the widget rect.
C10_VisibleCoversWidget ==
    LET cx == lon_to_x(center[1], zoom)
        cy == lat_to_y(center[2], zoom)
    IN  /\ TileId(zoom, Floor(cx, Den(zoom)), Floor(cy, Den(zoom))) \in Visible
        /\ \A tx \in Around(cx, zoom, rect.w), ty \in Around(cy, zoom, rect.h) :
              TileShows(tx, cx, zoom, rect.w) /\ TileShows(ty, cy, zoom, rect.h)
                  => TileId(zoom, tx, ty) \in Visible

\* C10 witness: a center inside the world, not on a tile boundary, whose
\* widget shows a part of the tiles left of and above the center's tile
C10_Witness ==
    LET cx == lon_to_x(center[1], zoom)
        cy == lat_to_y(center[2], zoom)
    IN  /\ frames >= 1 /\ CenterInsideWorld
        /\ cx % Den(zoom) # 0 /\ cy % Den(zoom) # 0
        /\ (cx - (rect.w * Px(zoom)) \div 2) % Den(zoom) # 0
        /\ TileShows(Floor(cx, Den(zoom)) - 1, cx, zoom, rect.w)
        /\ TileShows(Floor(cy, Den(zoom)) - 1, cy, zoom, rect.h)
        /\ Floor(cx, Den(zoom)) >= 1 /\ Floor(cy, Den(zoom)) >= 1

---------------------------------------------------------------------------
(* SpecProj: the projector and the coordinate conversions as pure          *)
(* functions.  Init draws a projector; each action applies project,        *)
(* unproject or the conversions to an input and records the results.       *)

ProjRect == Rect(100, 200, 512, 256)

ProjZooms == {MIN_ZOOM, 10, MAX_ZOOM}

\* a center near the world's north-west corner
OffCenter == <<(2 ^ 20) - Half, Half - 3 * (2 ^ 19)>>

\* the projector of the state
Projection == MapProjection(zoom, center, rect)

\* a geographic position inside the world
InWorld(g) == -Half <= g[1] /\ g[1] <= Half /\ -Half <= g[2] /\ g[2] <= Half

\* geographic positions: the center, the positions under whole pixels of the
\* widget, positions a fraction of a pixel and a few pixels off them, and
\* positions far from the center
GeoInputs ==
    {g \in {<<center[1] + d[1], center[2] + d[2]>> :
              d \in {<<0, 0>>, <<Px(zoom), 0>>, <<-200 * Px(zoom), 100 * Px(zoom)>>,
                     <<1, -1>>, <<2 ^ 24, 2 ^ 24>>, <<2 ^ 24 + 1, -(2 ^ 24) - 1>>,
                     <<3 * (2 ^ 24) + 5, -(2 ^ 26) - 3>>, <<2 ^ 27 - 44, -7>>}}
        \cup {Origin, NorthWest, SouthEast} : InWorld(g)}

\* screen positions: whole pixels on and off the widget, and positions a
\* fraction of a pixel from the screen's origin and from the widget's corner
PosInputs ==
    {Pos2(zoom, px) : px \in {<<100, 200>>, <<356, 328>>, <<612, 456>>, <<150, 250>>,
                             <<0, 0>>, <<700, 20>>}}
    \cup {<<1, 1>>, <<3, 2 ^ 22>>, <<100 * Px(zoom) + Px(zoom) \div 2, 200 * Px(zoom)>>}

\* longitudes, latitudes (as northings) and tile coordinates to convert
ConvInputs == {-Half, -Half + 1, -12345, 0, 1, 2 ^ 20, Half - 1, Half}

Project(g) ==
    /\ op' = [kind |-> "project", geo |-> g, pos |-> project(Projection, g),
              back |-> unproject(Projection, project(Projection, g))]
    /\ UNCHANGED <<mapVars, areas, dragged_object, polylines, stroke, textVars>>

Unproject(pos) ==
    /\ op' = [kind |-> "unproject", pos |-> pos, geo |-> unproject(Projection, pos),
              back |-> project(Projection, unproject(Projection, pos))]
    /\ UNCHANGED <<mapVars, areas, dragged_object, polylines, stroke, textVars>>

Convert(z, v) ==
    /\ op' = [kind |-> "convert", zoom |-> z, value |-> v,
              lon |-> x_to_lon(lon_to_x(v, z), z),
              lat |-> y_to_lat(lat_to_y(v, z), z),
              x |-> lon_to_x(x_to_lon(v + Half, z), z),
              y |-> lat_to_y(y_to_lat(v + Half, z), z)]
    /\ UNCHANGED <<mapVars, areas, dragged_object, polylines, stroke, textVars>>

InitProj ==
    /\ rect = ProjRect
    /\ zoom \in ProjZooms
    /\ center \in {Origin, OffCenter}
    /\ tiles = [t \in {} |-> Failed]
    /\ fetches = [t \in {} |-> 0]
    /\ mouse_pos = None
    /\ repaint = FALSE
    /\ last = [resp |-> NoInput,
               pre |-> [center |-> center, zoom |-> zoom, tiles |-> tiles],
               afterPan |-> center, afterDbl |-> [center |-> center, zoom |-> zoom]]
    /\ frames = 0
    /\ done = 0
    /\ NoLayers

DoProject == \E g \in GeoInputs : Project(g)

DoUnproject == \E pos \in PosInputs : Unproject(pos)

DoConvert == \E z \in MIN_ZOOM..MAX_ZOOM, v \in ConvInputs : Convert(z, v)

NextProj == DoProject \/ DoUnproject \/ DoConvert

SpecProj == InitProj /\ [][NextProj]_vars


---------------------------------------------------------------------------
(* Screen geometry of the layers, src/src/layers/mod.rs 44-106.  The       *)
(* source computes in f32; the model computes the same quantities exactly, *)
(* a quotient being held as a fraction [num, den] with den > 0.            *)

Abs(n) == IF n < 0 THEN -n ELSE n

Sub(a, b) == <<a[1] - b[1], a[2] - b[2]>>

Dot(a, b) == a[1] * b[1] + a[2] * b[2]

LengthSq(a) == Dot(a, a)

Frac(num, den) == [num |-> num, den |-> den]

\* fraction < integer
FracLess(f, k) == f.num < k * f.den

\* mod.rs 45-63
dist_sq_to_segment(p, a, b) ==
    LET ab == Sub(b, a)
        ap == Sub(p, a)
        l2 == LengthSq(ab)
    IN  IF l2 = 0 THEN Frac(LengthSq(ap), 1)
        ELSE IF Dot(ap, ab) <= 0 THEN Frac(LengthSq(ap), 1)
        ELSE IF Dot(ap, ab) >= l2 THEN Frac(LengthSq(Sub(p, b)), 1)
        ELSE Frac(LengthSq(ap) * l2 - Dot(ap, ab) * Dot(ap, ab), l2)

\* mod.rs 67-78: t in [0, 1]
projection_factor(p, a, b) ==
    LET ab == Sub(b, a)
        ap == Sub(p, a)
        l2 == LengthSq(ab)
    IN  IF l2 = 0 THEN Frac(0, 1)
        ELSE IF Dot(ap, ab) <= 0 THEN Frac(0, 1)
        ELSE IF Dot(ap, ab) >= l2 THEN Frac(1, 1)
        ELSE Frac(Dot(ap, ab), l2)

\* Pos2::lerp, a + t * (b - a), to the nearest unit below
lerp(a, b, t) ==
    <<a[1] + Floor(t.num * (b[1] - a[1]), t.den),
      a[2] + Floor(t.num * (b[2] - a[2]), t.den)>>

\* mod.rs 82-91.  The products are integers in square units, so |val| < 1e-6
\* square pixels exactly when val = 0.
OrientationSign(p, q, r) ==
    LET val == (q[2] - p[2]) * (r[1] - q[1]) - (q[1] - p[1]) * (r[2] - q[2])
    IN  IF val >= 0 THEN 1 ELSE -1

orientation(p, q, r) ==
    LET val == (q[2] - p[2]) * (r[1] - q[1]) - (q[1] - p[1]) * (r[2] - q[2])
    IN  IF val = 0 THEN 0 ELSE IF val > 0 THEN 1 ELSE -1

\* mod.rs 81-106
SegmentsIntersectStrict(p1, q1, p2, q2) ==
    /\ orientation(p1, q1, p2) * orientation(p1, q1, q2) < 0
    /\ orientation(p2, q2, p1) * orientation(p2, q2, q1) < 0

segments_intersect(p1, q1, p2, q2) ==
    LET o1 == orientation(p1, q1, p2)
        o2 == orientation(p1, q1, q2)
        o3 == orientation(p2, q2, p1)
        o4 == orientation(p2, q2, q1)
    IN  o1 # o2 /\ o3 # o4

---------------------------------------------------------------------------
(* AreaLayer, src/src/layers/area.rs.  The areas of the model are          *)
(* polygons.  Sequences are indexed from 1: index i of the model is index  *)
(* i - 1 of the source.                                                    *)

node_radius == 5

\* Area { shape: AreaShape::Polygon(points), stroke, fill }
PolygonArea(points, area_stroke, fill) ==
    [shape |-> "Polygon", points |-> points, stroke |-> area_stroke, fill |-> fill]

\* Area { shape: AreaShape::Circle { center, radius, points }, stroke, fill };
\* points is the optional number of points of the drawn approximation
CircleArea(center_pos, radius, points, area_stroke, fill) ==
    [shape |-> "Circle", center |-> center_pos, radius |-> radius,
     points |-> points, stroke |-> area_stroke, fill |-> fill]

Polygon(points) == PolygonArea(points, Stroke(1, RED), TRANSPARENT)

\* DraggedObject::PolygonNode
PolygonNode(area_index, node_index) ==
    [kind |-> "PolygonNode", area_index |-> area_index, node_index |-> node_index]

\* the Response a layer reads: clicked(), double_clicked(), drag_started(),
\* dragged(), drag_stopped(), interact_pointer_pos(), hovered(), hover_pos()
\* and the shift modifier
LayerResponse(clicked, dbl, started, dragged, stopped, ptr, hovered, shift) ==
    [clicked |-> clicked, double_clicked |-> dbl, drag_started |-> started,
     dragged |-> dragged, drag_stopped |-> stopped, interact_pointer_pos |-> ptr,
     hovered |-> hovered, hover_pos |-> IF hovered THEN ptr ELSE None,
     shift |-> shift]

\* (node_radius * k)^2 square pixels, in square units
ToleranceSq(p, k) == (k * node_radius * Px(p.zoom)) * (k * node_radius * Px(p.zoom))

\* the index after and before i in a ring of n
NextIdx(i, n) == (i % n) + 1

PrevIdx(i, n) == ((i + n - 2) % n) + 1

\* DraggedObject::CircleCenter and DraggedObject::CircleRadius
CircleCenter(area_index) == [kind |-> "CircleCenter", area_index |-> area_index]

CircleRadius(area_index) == [kind |-> "CircleRadius", area_index |-> area_index]

\* f32::sqrt and Pos2::distance, to the nearest unit below
Sqrt(n) == CHOOSE r \in 0..512 : r * r <= n /\ (r + 1) * (r + 1) > n

\* metres per degree of longitude, 111_320 * cos(lat), in the model's unit
\* of length: a radius is held as the number of longitude units the same
\* length spans at the circle's latitude, and a pixel of the projector is
\* Px(zoom) of them (the latitudes of the model are within a thousandth of
\* a degree of the equator, where the cosine is 1 to 13 digits)
MetresOfLon(dlon, lat) == dlon

LonOfMetres(radius, lat) == radius

\* area.rs 272-298: the part of a circle under the pointer.  The distance to
\* the edge, |d - radius_pixels| < 2 * node_radius, is compared squared.
CircleObjectAt(area, a, p, screen_pos) ==
    LET picked(dist_sq, radius_pixels, t) ==
            IF /\ dist_sq < (radius_pixels + t) * (radius_pixels + t)
               /\ radius_pixels - t < 0
                  \/ dist_sq > (radius_pixels - t) * (radius_pixels - t)
            THEN Some(CircleRadius(a))
            ELSE IF dist_sq < ToleranceSq(p, 3) THEN Some(CircleCenter(a))
            ELSE None
        at(center_screen, point_on_circle_screen) ==
            picked(LengthSq(Sub(center_screen, screen_pos)),
                   Sqrt(LengthSq(Sub(center_screen, point_on_circle_screen))),
                   2 * node_radius * Px(p.zoom))
    IN  at(project(p, area.center),
           project(p, <<area.center[1] + LonOfMetres(area.radius, area.center[2]),
                        area.center[2]>>))

\* area.rs 252-303: the areas from the last to the first, the nodes of a
\* polygon from the first to the last; the first node within
\* 3 * node_radius, or the radius handle or the center of a circle
find_object_at(ar, p, screen_pos) ==
    LET hit(a, n) ==
            LengthSq(Sub(project(p, ar[a].points[n]), screen_pos)) < ToleranceSq(p, 3)
        first_node(a) ==
            CHOOSE x \in 1..Len(ar[a].points) :
                hit(a, x) /\ \A y \in 1..(x - 1) : ~hit(a, y)
        object(a) ==
            IF ar[a].shape = "Polygon"
            THEN IF \E n \in 1..Len(ar[a].points) : hit(a, n)
                 THEN Some(PolygonNode(a, first_node(a)))
                 ELSE None
            ELSE CircleObjectAt(ar[a], a, p, screen_pos)
        last_area(hits) ==
            IF hits = {} THEN None
            ELSE object(CHOOSE x \in hits : \A y \in hits : y <= x)
    IN  last_area({a \in 1..Len(ar) : object(a) # None})

\* area.rs 310-333: the first edge within 2 * node_radius, as (area, start
\* index)
find_line_segment_at(ar, p, screen_pos) ==
    LET near(a, i) ==
            LET pts == ar[a].points
            IN  /\ ar[a].shape = "Polygon"
                /\ Len(pts) >= 2
                /\ FracLess(dist_sq_to_segment(screen_pos, project(p, pts[i]),
                                project(p, pts[NextIdx(i, Len(pts))])),
                            ToleranceSq(p, 2))
        first_edge(a) ==
            CHOOSE x \in 1..Len(ar[a].points) :
                near(a, x) /\ \A y \in 1..(x - 1) : ~near(a, y)
        last_area(hits) ==
            IF hits = {} THEN None
            ELSE LET a == CHOOSE x \in hits : \A y \in hits : y <= x
                 IN  Some(<<a, first_edge(a)>>)
    IN  last_area({a \in 1..Len(ar) :
                     ar[a].shape = "Polygon" /\ \E i \in 1..Len(ar[a].points) : near(a, i)})

\* area.rs 305-309
find_node_at(ar, p, screen_pos) == find_line_segment_at(ar, p, screen_pos)

\* area.rs 336-394
IsMoveValidFirstEdge(ar, p, area_idx, node_idx, new_screen_pos) ==
    LET points == ar[area_idx].points
        n == Len(points)
        sp == [i \in 1..n |-> project(p, points[i])]
        prev_node_idx == PrevIdx(node_idx, n)
    IN  \/ n < 3
        \/ \A i \in 1..n :
              LET p1_idx == i
                  p2_idx == NextIdx(i, n)
              IN  \/ p1_idx = node_idx \/ p2_idx = node_idx
                  \/ p1_idx = prev_node_idx \/ p2_idx = prev_node_idx
                  \/ ~segments_intersect(sp[prev_node_idx], new_screen_pos,
                                         sp[p1_idx], sp[p2_idx])

is_move_valid(ar, p, area_idx, node_idx, new_screen_pos) ==
    IF area_idx \notin 1..Len(ar) THEN FALSE
    ELSE IF ar[area_idx].shape # "Polygon" THEN TRUE
    ELSE
    LET points == ar[area_idx].points
        n == Len(points)
        screen_points == [i \in 1..n |-> project(p, points[i])]
        prev_node_idx == PrevIdx(node_idx, n)
        next_node_idx == NextIdx(node_idx, n)
    IN  \/ n < 3
        \/ \A i \in 1..n :
              LET p1_idx == i
                  p2_idx == NextIdx(i, n)
              IN  \/ p1_idx = node_idx \/ p2_idx = node_idx
                  \/ /\ \/ p1_idx = prev_node_idx \/ p2_idx = prev_node_idx
                        \/ ~segments_intersect(screen_points[prev_node_idx],
                                new_screen_pos,
                                screen_points[p1_idx], screen_points[p2_idx])
                     /\ \/ p1_idx = next_node_idx \/ p2_idx = next_node_idx
                        \/ ~segments_intersect(new_screen_pos,
                                screen_points[next_node_idx],
                                screen_points[p1_idx], screen_points[p2_idx])

\* Vec::insert(i, v) with i counted from 0: v becomes element i + 1
Insert(seq, i, v) == SubSeq(seq, 1, i) \o <<v>> \o SubSeq(seq, i + 1, Len(seq))

\* area.rs 149-177: the double-click part.  inserted says whether the handler
\* returns from it.
HandleNodeInsert(ar, p, resp) ==
    LET new_pos_geo(pointer_pos, p1_screen, p2_screen) ==
            LET t == projection_factor(pointer_pos, p1_screen, p2_screen)
                new_pos_screen == lerp(p1_screen, p2_screen, t)
            IN  unproject(p, new_pos_screen)
        insert(pointer_pos, area_idx, node_idx) ==
            LET points == ar[area_idx].points
                p1_screen == project(p, points[node_idx])
                p2_screen == project(p, points[NextIdx(node_idx, Len(points))])
            IN  [inserted |-> TRUE,
                 areas |-> [ar EXCEPT ![area_idx].points =
                               Insert(points, node_idx,
                                      new_pos_geo(pointer_pos, p1_screen, p2_screen))]]
        on_segment(pointer_pos, seg) == insert(pointer_pos, seg[1], seg[2])
    IN  IF /\ resp.double_clicked /\ resp.interact_pointer_pos # None
           /\ find_node_at(ar, p, resp.interact_pointer_pos[1]) = None
           /\ find_line_segment_at(ar, p, resp.interact_pointer_pos[1]) # None
        THEN on_segment(resp.interact_pointer_pos[1],
                        find_line_segment_at(ar, p, resp.interact_pointer_pos[1])[1])
        ELSE [inserted |-> FALSE, areas |-> ar]

\* area.rs 211-226: the radius a radius-handle drag to pointer_pos stores.
\* new_edge_geo has the center's latitude, so distance_lat is 0.
DraggedRadius(center_pos, p, pointer_pos) ==
    LET radius(center_screen) ==
            LET new_radius_pixels == Sqrt(LengthSq(Sub(pointer_pos, center_screen)))
                new_edge_geo == unproject(p, <<center_screen[1] + new_radius_pixels,
                                               center_screen[2]>>)
            IN  MetresOfLon(Abs(new_edge_geo[1] - center_pos[1]), center_pos[2])
    IN  radius(project(p, center_pos))

\* area.rs 148-250: the whole handler.  grabbed is the dragged object after
\* the drag-start part.
HandleModifyAbortOnReject(ar, dr, p, resp) ==
    LET valid(grabbed) ==
            is_move_valid(ar, p, grabbed[1].area_index, grabbed[1].node_index,
                          resp.interact_pointer_pos[1])
        drags(grabbed) ==
            resp.dragged /\ grabbed # None /\ resp.interact_pointer_pos # None
        moved(grabbed) ==
            IF drags(grabbed) /\ valid(grabbed)
            THEN [ar EXCEPT ![grabbed[1].area_index].points[grabbed[1].node_index] =
                                unproject(p, resp.interact_pointer_pos[1])]
            ELSE ar
        result(grabbed, released) ==
            [areas |-> moved(grabbed), dragged_object |-> released,
             grabbed |-> grabbed, inserted |-> FALSE,
             handled |-> released # None \/ resp.hovered]
        drag(grabbed) ==
            result(grabbed,
                   IF resp.drag_stopped \/ (drags(grabbed) /\ ~valid(grabbed))
                   THEN None ELSE grabbed)
        after(ins) ==
            IF ins.inserted
            THEN [areas |-> ins.areas, dragged_object |-> dr, grabbed |-> dr,
                  inserted |-> TRUE, handled |-> resp.hovered]
            ELSE drag(IF resp.drag_started /\ resp.interact_pointer_pos # None
                      THEN find_object_at(ar, p, resp.interact_pointer_pos[1])
                      ELSE dr)
    IN  after(HandleNodeInsert(ar, p, resp))

handle_modify_input(ar, dr, p, resp) ==
    LET node_moved(a, n, pointer_pos) ==
            IF /\ is_move_valid(ar, p, a, n, pointer_pos)
               /\ a \in 1..Len(ar) /\ ar[a].shape = "Polygon"
               /\ n \in 1..Len(ar[a].points)
            THEN [ar EXCEPT ![a].points[n] = unproject(p, pointer_pos)]
            ELSE ar
        center_moved(a, pointer_pos) ==
            IF a \in 1..Len(ar) /\ ar[a].shape = "Circle"
            THEN [ar EXCEPT ![a].center = unproject(p, pointer_pos)]
            ELSE ar
        radius_moved(a, pointer_pos) ==
            IF a \in 1..Len(ar) /\ ar[a].shape = "Circle"
            THEN [ar EXCEPT ![a].radius = DraggedRadius(ar[a].center, p, pointer_pos)]
            ELSE ar
        moved(grabbed) ==
            IF resp.dragged /\ grabbed # None /\ resp.interact_pointer_pos # None
            THEN IF grabbed[1].kind = "PolygonNode"
                 THEN node_moved(grabbed[1].area_index, grabbed[1].node_index,
                                 resp.interact_pointer_pos[1])
                 ELSE IF grabbed[1].kind = "CircleCenter"
                 THEN center_moved(grabbed[1].area_index, resp.interact_pointer_pos[1])
                 ELSE radius_moved(grabbed[1].area_index, resp.interact_pointer_pos[1])
            ELSE ar
        drag(grabbed) ==
            LET released == IF resp.drag_stopped THEN None ELSE grabbed
            IN  [areas |-> moved(grabbed), dragged_object |-> released,
                 grabbed |-> grabbed, inserted |-> FALSE,
                 handled |-> released # None \/ resp.hovered]
        after(ins) ==
            IF ins.inserted
            THEN [areas |-> ins.areas, dragged_object |-> dr, grabbed |-> dr,
                  inserted |-> TRUE, handled |-> resp.hovered]
            ELSE drag(IF resp.drag_started /\ resp.interact_pointer_pos # None
                      THEN find_object_at(ar, p, resp.interact_pointer_pos[1])
                      ELSE dr)
    IN  after(HandleNodeInsert(ar, p, resp))

\* Layer::handle_input of an AreaLayer in Modify mode (area.rs 441-446): one
\* frame
AreaFrame(resp) ==
    LET frame(h) ==
            /\ areas' = h.areas
            /\ dragged_object' = h.dragged_object
            /\ op' = [kind |-> "area", resp |-> resp, areas |-> areas,
                      dragged_object |-> dragged_object, grabbed |-> h.grabbed,
                      inserted |-> h.inserted, handled |-> h.handled]
            /\ frames' = frames + 1
            /\ UNCHANGED <<center, zoom, tiles, mouse_pos, rect, fetches, repaint,
                           last, done, polylines, stroke, textVars>>
    IN  frame(handle_modify_input(areas, dragged_object, Projection, resp))

---------------------------------------------------------------------------
(* SpecArea: an AreaLayer in Modify mode under a fixed projection, fed a   *)
(* bounded number of frames of pointer input.                              *)

MaxAreaFrames == 3

AreaRect == Rect(0, 0, 64, 64)

AreaProjection == MapProjection(MAX_ZOOM, Origin, AreaRect)

\* the position under a pixel of the widget
GeoAt(pixel) == unproject(AreaProjection, Pos2(MAX_ZOOM, pixel))

Square == Polygon(<<GeoAt(<<16, 16>>), GeoAt(<<48, 16>>), GeoAt(<<48, 48>>),
                    GeoAt(<<16, 48>>)>>)

Pentagon == Polygon(<<GeoAt(<<16, 16>>), GeoAt(<<32, 8>>), GeoAt(<<48, 16>>),
                      GeoAt(<<48, 48>>), GeoAt(<<16, 48>>)>>)

Triangle == Polygon(<<GeoAt(<<40, 40>>), GeoAt(<<60, 40>>), GeoAt(<<60, 60>>)>>)

\* a pentagon whose node after the first lies on the line of the edge that
\* ends at the node before the first
Notch == Polygon(<<GeoAt(<<16, 16>>), GeoAt(<<20, 32>>), GeoAt(<<20, 60>>),
                   GeoAt(<<60, 32>>), GeoAt(<<40, 32>>)>>)

AreaLayers == {<<Square>>, <<Pentagon>>, <<Square, Triangle>>, <<Notch>>}

\* pointer positions: on nodes, beside an edge, in the open, and targets
\* of a drag inside, outside and across the polygon
AreaPointers == {<<16, 16>>, <<48, 48>>, <<32, 18>>, <<32, 32>>, <<8, 8>>,
                 <<56, 32>>, <<48, 32>>, <<32, 56>>}

AreaInputs ==
    LET at(pixel) == Some(Pos2(MAX_ZOOM, pixel))
    IN  {LayerResponse(TRUE, TRUE, FALSE, FALSE, FALSE, at(q), TRUE, FALSE) :
            q \in {<<16, 16>>, <<32, 18>>, <<32, 32>>, <<48, 32>>}}
        \cup {LayerResponse(FALSE, FALSE, TRUE, d, FALSE, at(q), TRUE, FALSE) :
            q \in {<<16, 16>>, <<48, 48>>, <<32, 32>>}, d \in BOOLEAN}
        \cup {LayerResponse(FALSE, FALSE, FALSE, TRUE, st, at(q), TRUE, FALSE) :
            q \in AreaPointers, st \in BOOLEAN}
        \* a drag frame with the pointer held down off the hovered widget
        \cup {LayerResponse(FALSE, FALSE, FALSE, TRUE, FALSE, at(q), FALSE, FALSE) :
            q \in {<<8, 8>>, <<56, 32>>}}
        \cup {LayerResponse(FALSE, FALSE, FALSE, FALSE, TRUE, None, FALSE, FALSE),
              LayerResponse(FALSE, FALSE, FALSE, FALSE, FALSE, at(<<32, 32>>), TRUE, FALSE)}

InitArea ==
    /\ rect = AreaRect
    /\ zoom = MAX_ZOOM
    /\ center = Origin
    /\ tiles = [t \in {} |-> Failed]
    /\ fetches = [t \in {} |-> 0]
    /\ mouse_pos = None
    /\ repaint = FALSE
    /\ last = [resp |-> NoInput,
               pre |-> [center |-> center, zoom |-> zoom, tiles |-> tiles],
               afterPan |-> center, afterDbl |-> [center |-> center, zoom |-> zoom]]
    /\ frames = 0
    /\ done = 0
    /\ areas \in AreaLayers
    /\ dragged_object = None
    /\ polylines = << >>
    /\ stroke = Stroke(2, RED)
    /\ NoTexts
    /\ op = [kind |-> "none"]

NextArea == \E resp \in AreaInputs : frames < MaxAreaFrames /\ AreaFrame(resp)

SpecArea == InitArea /\ [][NextArea]_vars



---------------------------------------------------------------------------
(* SpecCircle: an AreaLayer with circles in Modify mode under the fixed    *)
(* projection of SpecArea, fed a bounded number of frames of pointer input. *)

MaxCircleFrames == 3

\* a circle of 16 pixels radius in the middle of the widget, and a small one
Circle(center_pixel, radius_pixels) ==
    CircleArea(GeoAt(center_pixel), radius_pixels * Px(MAX_ZOOM), None,
               Stroke(1, RED), TRANSPARENT)

CircleLayers == {<<Circle(<<32, 32>>, 16)>>, <<Circle(<<32, 32>>, 4)>>,
                 <<Triangle, Circle(<<24, 24>>, 8)>>}

\* pointer positions: the centers, the handles, and targets of a drag
CirclePointers == {<<32, 32>>, <<48, 32>>, <<24, 24>>, <<32, 24>>, <<40, 40>>,
                   <<8, 56>>}

CircleInputs ==
    LET at(pixel) == Some(Pos2(MAX_ZOOM, pixel))
    IN  {LayerResponse(FALSE, FALSE, TRUE, FALSE, FALSE, at(q), TRUE, FALSE) :
            q \in CirclePointers}
        \cup {LayerResponse(FALSE, FALSE, FALSE, TRUE, FALSE, at(q), TRUE, FALSE) :
            q \in CirclePointers}
        \cup {LayerResponse(FALSE, FALSE, FALSE, FALSE, TRUE, None, FALSE, FALSE)}

InitCircle ==
    /\ rect = AreaRect
    /\ zoom = MAX_ZOOM
    /\ center = Origin
    /\ tiles = [t \in {} |-> Failed]
    /\ fetches = [t \in {} |-> 0]
    /\ mouse_pos = None
    /\ repaint = FALSE
    /\ last = [resp |-> NoInput,
               pre |-> [center |-> center, zoom |-> zoom, tiles |-> tiles],
               afterPan |-> center, afterDbl |-> [center |-> center, zoom |-> zoom]]
    /\ frames = 0
    /\ done = 0
    /\ areas \in CircleLayers
    /\ dragged_object = None
    /\ polylines = << >>
    /\ stroke = Stroke(2, RED)
    /\ NoTexts
    /\ op = [kind |-> "none"]

NextCircle == \E resp \in CircleInputs : frames < MaxCircleFrames /\ AreaFrame(resp)

SpecCircle == InitCircle /\ [][NextCircle]_vars

---------------------------------------------------------------------------
(* SpecSeg: segments_intersect applied to every four points of a small     *)
(* grid of screen positions.                                               *)

\* the grid has the coordinates 0..MaxCoord on both axes
MaxCoord == 3

GridPoints == {<<x, y>> : x \in 0..MaxCoord, y \in 0..MaxCoord}

\* one call of segments_intersect(p1, q1, p2, q2), mod.rs 81-106
SegmentsIntersect(p1, q1, p2, q2) ==
    /\ op.kind = "none"
    /\ op' = [kind |-> "segments", p1 |-> p1, q1 |-> q1, p2 |-> p2, q2 |-> q2,
              result |-> segments_intersect(p1, q1, p2, q2)]
    /\ UNCHANGED <<mapVars, areas, dragged_object, polylines, stroke, textVars>>

InitSeg ==
    /\ rect = AreaRect
    /\ zoom = MAX_ZOOM
    /\ center = Origin
    /\ tiles = [t \in {} |-> Failed]
    /\ fetches = [t \in {} |-> 0]
    /\ mouse_pos = None
    /\ repaint = FALSE
    /\ last = [resp |-> NoInput,
               pre |-> [center |-> center, zoom |-> zoom, tiles |-> tiles],
               afterPan |-> center, afterDbl |-> [center |-> center, zoom |-> zoom]]
    /\ frames = 0
    /\ done = 0
    /\ NoLayers

NextSeg ==
    /\ op.kind = "none"
    /\ \E p1 \in GridPoints, q1 \in GridPoints, p2 \in GridPoints, q2 \in GridPoints :
           SegmentsIntersect(p1, q1, p2, q2)

SpecSeg == InitSeg /\ [][NextSeg]_vars

---------------------------------------------------------------------------
(* DrawingLayer, src/src/layers/drawing.rs.  A Polyline is the sequence of *)
(* its positions.                                                          *)

\* drawing.rs 330-399: the loop from segment i on.  st holds new_polylines,
\* current_line and in_visible_part.
RECURSIVE SplitWalk(_, _, _, _, _, _)
SplitWalk(polyline, pointer_pos, erase_radius_sq, p, i, st) ==
    IF i > Len(polyline) - 1 THEN st
    ELSE
    LET p2_geo == polyline[i + 1]
        next(segment_is_erased, split_point_geo) ==
            IF st.in_visible_part
            THEN IF segment_is_erased
                 THEN IF Len(st.current_line) + 1 > 1
                      THEN [new_polylines |->
                                Append(st.new_polylines,
                                       Append(st.current_line, split_point_geo)),
                            current_line |-> << >>, in_visible_part |-> FALSE]
                      ELSE [st EXCEPT !.current_line = Append(@, split_point_geo),
                                      !.in_visible_part = FALSE]
                 ELSE [st EXCEPT !.current_line = Append(@, p2_geo)]
            ELSE IF ~segment_is_erased
                 THEN [st EXCEPT !.current_line = @ \o <<split_point_geo, p2_geo>>,
                                 !.in_visible_part = TRUE]
                 ELSE st
        segment(p1_screen, p2_screen) ==
            next(FracLess(dist_sq_to_segment(pointer_pos, p1_screen, p2_screen),
                          erase_radius_sq),
                 unproject(p, lerp(p1_screen, p2_screen,
                                   projection_factor(pointer_pos, p1_screen, p2_screen))))
    IN  SplitWalk(polyline, pointer_pos, erase_radius_sq, p, i + 1,
                  segment(project(p, polyline[i]), project(p, polyline[i + 1])))

\* drawing.rs 330-399
SplitPushingLast(polyline, pointer_pos, erase_radius_sq, p) ==
    IF Len(polyline) < 2 THEN << >>
    ELSE
    LET start(first_erased) ==
            [new_polylines |-> << >>,
             current_line |-> IF first_erased THEN << >> ELSE <<polyline[1]>>,
             in_visible_part |-> ~first_erased]
        finish(st) == Append(st.new_polylines, st.current_line)
    IN  finish(SplitWalk(polyline, pointer_pos, erase_radius_sq, p, 1,
            start(FracLess(dist_sq_to_segment(pointer_pos, project(p, polyline[1]),
                                              project(p, polyline[2])),
                           erase_radius_sq))))

split_polyline_by_erase_circle(polyline, pointer_pos, erase_radius_sq, p) ==
    IF Len(polyline) < 2 THEN << >>
    ELSE
    LET start(first_erased) ==
            [new_polylines |-> << >>,
             current_line |-> IF first_erased THEN << >> ELSE <<polyline[1]>>,
             in_visible_part |-> ~first_erased]
        finish(st) ==
            IF Len(st.current_line) > 1
            THEN Append(st.new_polylines, st.current_line)
            ELSE st.new_polylines
    IN  finish(SplitWalk(polyline, pointer_pos, erase_radius_sq, p, 1,
            start(FracLess(dist_sq_to_segment(pointer_pos, project(p, polyline[1]),
                                              project(p, polyline[2])),
                           erase_radius_sq))))

\* the eraser's radius squared, in square units (drawing.rs 281-282)
EraseRadiusSq(p, width) == (width * Px(p.zoom)) * (width * Px(p.zoom))

\* Iterator::flat_map over the polylines from index k on
RECURSIVE FlatSplit(_, _, _, _, _)
FlatSplit(pl, k, pointer_pos, erase_radius_sq, p) ==
    IF k > Len(pl) THEN << >>
    ELSE split_polyline_by_erase_circle(pl[k], pointer_pos, erase_radius_sq, p)
         \o FlatSplit(pl, k + 1, pointer_pos, erase_radius_sq, p)

\* drawing.rs 280-298
RECURSIVE FlatSplitKeepingShort(_, _, _, _, _)
FlatSplitKeepingShort(pl, k, pointer_pos, erase_radius_sq, p) ==
    IF k > Len(pl) THEN << >>
    ELSE (IF Len(pl[k]) < 2 THEN <<pl[k]>>
          ELSE split_polyline_by_erase_circle(pl[k], pointer_pos, erase_radius_sq, p))
         \o FlatSplitKeepingShort(pl, k + 1, pointer_pos, erase_radius_sq, p)

EraseAtKeepingShort(pl, width, pointer_pos, p) ==
    FlatSplitKeepingShort(pl, 1, pointer_pos, EraseRadiusSq(p, width), p)

erase_at(pl, width, pointer_pos, p) ==
    FlatSplit(pl, 1, pointer_pos, EraseRadiusSq(p, width), p)

\* drawing.rs 229-265
HandleDrawNewLinePerFrame(pl, p, resp) ==
    LET clicked ==
            IF resp.clicked /\ resp.interact_pointer_pos # None
            THEN IF Len(pl) > 0 /\ resp.shift
                 THEN [pl EXCEPT ![Len(pl)] =
                          Append(@, unproject(p, resp.interact_pointer_pos[1]))]
                 ELSE Append(pl, <<unproject(p, resp.interact_pointer_pos[1]),
                                   unproject(p, <<resp.interact_pointer_pos[1][1] + Px(p.zoom),
                                                  resp.interact_pointer_pos[1][2]>>)>>)
            ELSE pl
        dragged ==
            IF resp.dragged /\ resp.interact_pointer_pos # None
            THEN Append(clicked, <<unproject(p, resp.interact_pointer_pos[1])>>)
            ELSE IF resp.drag_started THEN Append(clicked, << >>) ELSE clicked
    IN  [polylines |-> dragged, handled |-> resp.hovered]

handle_draw_input(pl, p, resp) ==
    LET clicked ==
            IF resp.clicked /\ resp.interact_pointer_pos # None
            THEN LET pointer_pos == resp.interact_pointer_pos[1]
                     geo_pos == unproject(p, pointer_pos)
                 IN  IF Len(pl) > 0 /\ resp.shift
                     THEN [pl EXCEPT ![Len(pl)] = Append(@, geo_pos)]
                     ELSE LET geo_pos2 ==
                                 unproject(p, <<pointer_pos[1] + Px(p.zoom), pointer_pos[2]>>)
                          IN  Append(pl, <<geo_pos, geo_pos2>>)
            ELSE pl
        started == IF resp.drag_started THEN Append(clicked, << >>) ELSE clicked
        dragged ==
            IF resp.dragged /\ resp.interact_pointer_pos # None /\ Len(started) > 0
            THEN [started EXCEPT ![Len(started)] =
                     Append(@, unproject(p, resp.interact_pointer_pos[1]))]
            ELSE started
    IN  [polylines |-> dragged, handled |-> resp.hovered]

\* drawing.rs 267-278
handle_erase_input(pl, width, p, resp) ==
    [polylines |-> IF (resp.dragged \/ resp.clicked) /\ resp.interact_pointer_pos # None
                   THEN erase_at(pl, width, resp.interact_pointer_pos[1], p)
                   ELSE pl,
     handled |-> resp.hovered]

\* Layer::handle_input of a DrawingLayer (drawing.rs 310-316), one frame in
\* DrawMode::Draw
DrawModeFrame(resp) ==
    LET h == handle_draw_input(polylines, Projection, resp)
    IN  /\ polylines' = h.polylines
        /\ op' = [kind |-> "draw", resp |-> resp, polylines |-> polylines,
                  handled |-> h.handled]
        /\ frames' = frames + 1
        /\ UNCHANGED <<center, zoom, tiles, mouse_pos, rect, fetches, repaint,
                       last, done, areas, dragged_object, stroke, textVars>>

\* one frame in DrawMode::Erase
EraseModeFrame(resp) ==
    LET h == handle_erase_input(polylines, stroke.width, Projection, resp)
    IN  /\ polylines' = h.polylines
        /\ op' = [kind |-> "erase", resp |-> resp, polylines |-> polylines,
                  handled |-> h.handled]
        /\ frames' = frames + 1
        /\ UNCHANGED <<center, zoom, tiles, mouse_pos, rect, fetches, repaint,
                       last, done, areas, dragged_object, stroke, textVars>>

---------------------------------------------------------------------------
(* SpecDraw: a DrawingLayer, empty or loaded with polylines, fed a bounded *)
(* number of frames in Draw or Erase mode under a fixed projection.        *)

MaxDrawFrames == 3

Long3 == <<GeoAt(<<8, 32>>), GeoAt(<<32, 32>>), GeoAt(<<56, 32>>)>>

Short3 == <<GeoAt(<<30, 32>>), GeoAt(<<32, 32>>), GeoAt(<<34, 32>>)>>

Long4 == <<GeoAt(<<8, 16>>), GeoAt(<<24, 16>>), GeoAt(<<40, 16>>), GeoAt(<<56, 16>>)>>

DrawLayers == {<< >>, <<Long3>>, <<Short3>>, <<Long4>>, <<Short3, Long4>>}

StrokeWidths == {2, 6}

DrawInputs ==
    LET at(pixel) == Some(Pos2(MAX_ZOOM, pixel))
    IN  {LayerResponse(TRUE, FALSE, FALSE, FALSE, FALSE, at(<<8, 48>>), TRUE, FALSE),
         LayerResponse(TRUE, FALSE, FALSE, FALSE, FALSE, at(<<32, 48>>), TRUE, TRUE),
         LayerResponse(TRUE, FALSE, FALSE, FALSE, FALSE, at(<<56, 48>>), TRUE, TRUE),
         LayerResponse(FALSE, FALSE, TRUE, FALSE, FALSE, at(<<8, 48>>), TRUE, FALSE),
         LayerResponse(FALSE, FALSE, TRUE, TRUE, FALSE, at(<<8, 48>>), TRUE, FALSE),
         LayerResponse(FALSE, FALSE, FALSE, TRUE, FALSE, at(<<32, 48>>), TRUE, FALSE),
         LayerResponse(FALSE, FALSE, FALSE, TRUE, TRUE, at(<<56, 48>>), TRUE, FALSE),
         LayerResponse(FALSE, FALSE, FALSE, FALSE, FALSE, None, FALSE, FALSE)}

EraseInputs ==
    LET at(pixel) == Some(Pos2(MAX_ZOOM, pixel))
    IN  {LayerResponse(TRUE, FALSE, FALSE, FALSE, FALSE, at(q), TRUE, FALSE) :
            q \in {<<32, 32>>, <<20, 33>>, <<32, 16>>, <<32, 48>>, <<60, 4>>}}
        \cup {LayerResponse(FALSE, FALSE, FALSE, TRUE, FALSE, at(<<44, 48>>), TRUE, FALSE),
              LayerResponse(FALSE, FALSE, FALSE, FALSE, FALSE, at(<<32, 32>>), TRUE, FALSE)}

InitDraw ==
    /\ rect = AreaRect
    /\ zoom = MAX_ZOOM
    /\ center = Origin
    /\ tiles = [t \in {} |-> Failed]
    /\ fetches = [t \in {} |-> 0]
    /\ mouse_pos = None
    /\ repaint = FALSE
    /\ last = [resp |-> NoInput,
               pre |-> [center |-> center, zoom |-> zoom, tiles |-> tiles],
               afterPan |-> center, afterDbl |-> [center |-> center, zoom |-> zoom]]
    /\ frames = 0
    /\ done = 0
    /\ areas = << >>
    /\ dragged_object = None
    /\ polylines \in DrawLayers
    /\ stroke \in {Stroke(w, RED) : w \in StrokeWidths}
    /\ NoTexts
    /\ op = [kind |-> "none"]

Draw == \E resp \in DrawInputs : frames < MaxDrawFrames /\ DrawModeFrame(resp)

Erase == \E resp \in EraseInputs : frames < MaxDrawFrames /\ EraseModeFrame(resp)

NextDraw == Draw \/ Erase

SpecDraw == InitDraw /\ [][NextDraw]_vars

---------------------------------------------------------------------------
(* GeoJSON codec, src/src/layers/geojson.rs.  A serde_json value is a      *)
(* record tagged with its type, a property map a function from its keys,   *)
(* and a Result either Ok(value) or Err(message).                          *)

Ok(v) == [ok |-> TRUE, value |-> v]

Err(msg) == [ok |-> FALSE, error |-> msg]

JsonString(str) == [t |-> "string", v |-> str]

\* JsonValue::from of an f32 or f64
JsonFloat(n) == [t |-> "number", int |-> FALSE, v |-> n]

\* JsonValue::from of an i64
JsonInt(n) == [t |-> "number", int |-> TRUE, v |-> n]

JsonNull == [t |-> "null"]

as_f64(v) == IF v.t = "number" THEN Some(v.v) ELSE None

as_i64(v) == IF v.t = "number" /\ v.int THEN Some(v.v) ELSE None

as_str(v) == IF v.t = "string" THEN Some(v.v) ELSE None

\* serde_json::Map::new, insert and get
EmptyMap == [k \in {} |-> JsonNull]

MapInsert(m, key, v) == [k \in DOMAIN m \cup {key} |-> IF k = key THEN v ELSE m[k]]

MapGet(m, key) == IF key \in DOMAIN m THEN Some(m[key]) ELSE None

HexDigits == <<"0", "1", "2", "3", "4", "5", "6", "7", "8", "9",
               "a", "b", "c", "d", "e", "f">>

HexDigitsUpper == <<"0", "1", "2", "3", "4", "5", "6", "7", "8", "9",
                    "A", "B", "C", "D", "E", "F">>

\* Color32::to_hex: "#rrggbbaa"
to_hex(color) ==
    LET hex2(n) == HexDigits[(n \div 16) + 1] \o HexDigits[(n % 16) + 1]
    IN  "#" \o hex2(color[1]) \o hex2(color[2]) \o hex2(color[3]) \o hex2(color[4])

\* the value of a hex digit, -1 for any other character
HexVal(ch) ==
    IF \E i \in 1..16 : HexDigits[i] = ch \/ HexDigitsUpper[i] = ch
    THEN (CHOOSE i \in 1..16 : HexDigits[i] = ch \/ HexDigitsUpper[i] = ch) - 1
    ELSE -1

\* Color32::from_hex: "#rgb", "#rgba", "#rrggbb" or "#rrggbbaa"
from_hex(str) ==
    IF Len(str) = 0 \/ SubSeq(str, 1, 1) # "#" THEN Err("MissingHash")
    ELSE
    LET d == [i \in 1..(Len(str) - 1) |-> HexVal(SubSeq(str, i + 1, i + 1))]
    IN  IF Len(d) \notin {3, 4, 6, 8} THEN Err("InvalidLength")
        ELSE IF \E i \in 1..Len(d) : d[i] < 0 THEN Err("InvalidInt")
        ELSE IF Len(d) = 8
             THEN Ok(Color32(16 * d[1] + d[2], 16 * d[3] + d[4],
                             16 * d[5] + d[6], 16 * d[7] + d[8]))
        ELSE IF Len(d) = 6
             THEN Ok(Color32(16 * d[1] + d[2], 16 * d[3] + d[4], 16 * d[5] + d[6], 255))
        ELSE IF Len(d) = 4
             THEN Ok(Color32(17 * d[1], 17 * d[2], 17 * d[3], 17 * d[4]))
        ELSE Ok(Color32(17 * d[1], 17 * d[2], 17 * d[3], 255))

CARGO_PKG_NAME == "egui-map-view"

CARGO_PKG_VERSION == "CARGO_PKG_VERSION"

\* geojson.rs 12-21
add_version_to_properties(properties) ==
    MapInsert(MapInsert(properties, "x-egui-map-view-crate-name",
                        JsonString(CARGO_PKG_NAME)),
              "x-egui-map-view-crate-version", JsonString(CARGO_PKG_VERSION))

\* geojson::Geometry and geojson::Feature
Geometry(type, coordinates) == [type |-> type, coordinates |-> coordinates]

Feature(geometry, properties) == [geometry |-> geometry, properties |-> properties]

\* GeoPos -> geojson position, [lon, lat]
PositionFromGeoPos(gp) == <<gp[1], gp[2]>>

\* geojson position -> GeoPos: the first two numbers are lon and lat
GeoPosFromPosition(pos) == <<pos[1], pos[2]>>

Positions(points) == [i \in 1..Len(points) |-> PositionFromGeoPos(points[i])]

GeoPositions(line) == [i \in 1..Len(line) |-> GeoPosFromPosition(line[i])]

\* slice::first, slice::last and Vec::pop
First(seq) == IF seq = << >> THEN None ELSE Some(seq[1])

Last(seq) == IF seq = << >> THEN None ELSE Some(seq[Len(seq)])

Pop(seq) == IF seq = << >> THEN seq ELSE SubSeq(seq, 1, Len(seq) - 1)

\* geojson.rs 46-94
FeatureFromAreaUnclosed(area) ==
    LET properties ==
            MapInsert(MapInsert(MapInsert(add_version_to_properties(EmptyMap),
                "stroke_color", JsonString(to_hex(area.stroke.color))),
                "stroke_width", JsonFloat(area.stroke.width)),
                "fill_color", JsonString(to_hex(area.fill)))
    IN  IF area.shape = "Polygon"
        THEN Feature(Some(Geometry("Polygon", <<Positions(area.points)>>)),
                     Some(properties))
        ELSE LET with_radius == MapInsert(properties, "radius", JsonFloat(area.radius))
             IN  Feature(Some(Geometry("Point", PositionFromGeoPos(area.center))),
                         Some(IF area.points # None
                              THEN MapInsert(with_radius, "points", JsonInt(area.points[1]))
                              ELSE with_radius))

FeatureFromArea(area) ==
    LET properties ==
            MapInsert(MapInsert(MapInsert(add_version_to_properties(EmptyMap),
                "stroke_color", JsonString(to_hex(area.stroke.color))),
                "stroke_width", JsonFloat(area.stroke.width)),
                "fill_color", JsonString(to_hex(area.fill)))
    IN  IF area.shape = "Polygon"
        THEN LET closed == area.points \o (IF First(area.points) = None THEN << >>
                                           ELSE <<First(area.points)[1]>>)
             IN  Feature(Some(Geometry("Polygon", <<Positions(closed)>>)),
                         Some(properties))
        ELSE LET with_radius == MapInsert(properties, "radius", JsonFloat(area.radius))
             IN  Feature(Some(Geometry("Point", PositionFromGeoPos(area.center))),
                         Some(IF area.points # None
                              THEN MapInsert(with_radius, "points", JsonInt(area.points[1]))
                              ELSE with_radius))

\* the value of a string property holding a hex color, or the default
ColorProperty(properties, key, default) ==
    IF MapGet(properties, key) # None
       /\ as_str(MapGet(properties, key)[1]) # None
       /\ from_hex(as_str(MapGet(properties, key)[1])[1]).ok
    THEN from_hex(as_str(MapGet(properties, key)[1])[1]).value
    ELSE default

\* the value of a numeric property as f32, or the default
WidthProperty(properties, key, default) ==
    IF MapGet(properties, key) # None /\ as_f64(MapGet(properties, key)[1]) # None
    THEN AsF32(as_f64(MapGet(properties, key)[1])[1])
    ELSE default

\* geojson.rs 96-145: the shape, as Ok(Some(shape)), Ok(None) or Err
ShapeFromFeatureAnyRadius(feature) ==
    IF feature.geometry = None THEN Ok(None)
    ELSE
    LET geometry == feature.geometry[1]
    IN  IF geometry.type = "Polygon"
        THEN IF First(geometry.coordinates) = None THEN Err("Polygon has no rings")
             ELSE LET polygon_points == GeoPositions(geometry.coordinates[1])
                  IN  Ok(Some([shape |-> "Polygon",
                               points |-> IF First(polygon_points) = Last(polygon_points)
                                          THEN Pop(polygon_points)
                                          ELSE polygon_points]))
        ELSE IF geometry.type = "Point"
        THEN IF feature.properties = None THEN Err("Feature has no properties")
             ELSE
             LET properties == feature.properties[1]
                 radius == IF MapGet(properties, "radius") # None
                              /\ as_f64(MapGet(properties, "radius")[1]) # None
                           THEN as_f64(MapGet(properties, "radius")[1])[1]
                           ELSE 0
                 points == IF MapGet(properties, "points") # None
                           THEN as_i64(MapGet(properties, "points")[1])
                           ELSE None
             IN  Ok(Some([shape |-> "Circle",
                          center |-> GeoPosFromPosition(geometry.coordinates),
                          radius |-> radius, points |-> points]))
        ELSE Ok(None)

ShapeFromFeature(feature) ==
    IF feature.geometry = None THEN Ok(None)
    ELSE
    LET geometry == feature.geometry[1]
    IN  IF geometry.type = "Polygon"
        THEN IF First(geometry.coordinates) = None THEN Err("Polygon has no rings")
             ELSE LET polygon_points == GeoPositions(geometry.coordinates[1])
                  IN  Ok(Some([shape |-> "Polygon",
                               points |-> IF First(polygon_points) = Last(polygon_points)
                                          THEN Pop(polygon_points)
                                          ELSE polygon_points]))
        ELSE IF geometry.type = "Point"
        THEN IF feature.properties = None THEN Err("Feature has no properties")
             ELSE
             LET properties == feature.properties[1]
                 radius == IF MapGet(properties, "radius") # None
                              /\ as_f64(MapGet(properties, "radius")[1]) # None
                           THEN as_f64(MapGet(properties, "radius")[1])[1]
                           ELSE 0
                 points == IF MapGet(properties, "points") # None
                           THEN as_i64(MapGet(properties, "points")[1])
                           ELSE None
             IN  IF radius <= 0 THEN Err("Radius must be greater than 0")
                 ELSE Ok(Some([shape |-> "Circle",
                               center |-> GeoPosFromPosition(geometry.coordinates),
                               radius |-> radius, points |-> points]))
        ELSE Ok(None)

\* geojson.rs 96-180
AreaTryFromFeature(feature) ==
    LET shape == ShapeFromFeature(feature)
    IN  IF ~shape.ok THEN shape
        ELSE IF shape.value = None
        THEN Err("Unsupported geometry or missing shape data")
        ELSE
        LET width == IF feature.properties = None THEN 1
                     ELSE WidthProperty(feature.properties[1], "stroke_width", 1)
            color == IF feature.properties = None THEN RED
                     ELSE ColorProperty(feature.properties[1], "stroke_color", RED)
            fill == IF feature.properties = None THEN TRANSPARENT
                    ELSE ColorProperty(feature.properties[1], "fill_color", TRANSPARENT)
            sh == shape.value[1]
        IN  Ok(IF sh.shape = "Polygon"
               THEN PolygonArea(sh.points, Stroke(width, color), fill)
               ELSE CircleArea(sh.center, sh.radius, sh.points, Stroke(width, color), fill))

\* geojson.rs 182-192
FeatureFromPolyline(polyline) ==
    Feature(Some(Geometry("LineString", Positions(polyline))),
            Some(add_version_to_properties(EmptyMap)))

\* geojson.rs 194-210
PolylineTryFromFeature(feature) ==
    IF feature.geometry # None /\ feature.geometry[1].type = "LineString"
    THEN Ok(GeoPositions(feature.geometry[1].coordinates))
    ELSE Err("Feature is not a LineString")

\* text.rs 54-60 and 71-102
TextSize(kind, value) == [kind |-> kind, value |-> value]

Text(text, pos, size, color, background) ==
    [text |-> text, pos |-> pos, size |-> size, color |-> color,
     background |-> background]

TextDefault ==
    Text("New Text", <<0, 0>>, TextSize("Static", 12), BLACK, Color32(255, 255, 255, 180))

\* geojson.rs 212-246
FeatureFromText(text) ==
    Feature(Some(Geometry("Point", PositionFromGeoPos(text.pos))),
            Some(MapInsert(MapInsert(MapInsert(MapInsert(MapInsert(
                add_version_to_properties(EmptyMap),
                "text", JsonString(text.text)),
                "color", JsonString(to_hex(text.color))),
                "background", JsonString(to_hex(text.background))),
                "size_type", JsonString(text.size.kind)),
                "size", JsonFloat(text.size.value))))

\* geojson.rs 248-302
TextTryFromFeature(feature) ==
    IF feature.geometry = None THEN Err("Feature has no geometry")
    ELSE IF feature.geometry[1].type # "Point" THEN Err("Feature is not a Point")
    ELSE
    LET pos == GeoPosFromPosition(feature.geometry[1].coordinates)
    IN  IF feature.properties = None
        THEN Ok([TextDefault EXCEPT !.pos = pos])
        ELSE
        LET properties == feature.properties[1]
        IN  IF MapGet(properties, "text") = None
            THEN Err("Feature has no 'text' property")
            ELSE IF as_str(MapGet(properties, "text")[1]) = None
            THEN Err("Property 'text' is not a string")
            ELSE
            LET size ==
                    IF /\ MapGet(properties, "size_type") # None
                       /\ MapGet(properties, "size") # None
                       /\ as_f64(MapGet(properties, "size")[1]) # None
                       /\ \E k \in {"Static", "Relative"} :
                             MapGet(properties, "size_type")[1] = JsonString(k)
                    THEN TextSize(MapGet(properties, "size_type")[1].v,
                                  AsF32(as_f64(MapGet(properties, "size")[1])[1]))
                    ELSE TextDefault.size
            IN  Ok(Text(as_str(MapGet(properties, "text")[1])[1], pos, size,
                        ColorProperty(properties, "color", TextDefault.color),
                        ColorProperty(properties, "background", TextDefault.background)))

---------------------------------------------------------------------------
(* DrawingLayer::to_geojson_str and from_geojson_str, drawing.rs 74-206.   *)
(* A JSON text is a record: well_formed says whether it parses as JSON,    *)
(* and doc is the document it holds.  A FeatureCollection document has the *)
(* members type and features and, beside them, its foreign members.        *)

FeatureCollection(features, foreign_members) ==
    [features |-> features, foreign_members |-> foreign_members]

\* serde_json::to_string of a FeatureCollection
JsonText(feature_collection) ==
    [well_formed |-> TRUE,
     doc |-> [type |-> "FeatureCollection",
              features |-> feature_collection.features,
              members |-> IF feature_collection.foreign_members = None THEN EmptyMap
                          ELSE feature_collection.foreign_members[1]]]

\* serde_json::from_str::<FeatureCollection>
ParseAnyDocument(str) ==
    IF ~str.well_formed THEN Err("syntax error")
    ELSE IF str.doc.type # "FeatureCollection" THEN Ok(FeatureCollection(<< >>, None))
    ELSE Ok(FeatureCollection(str.doc.features,
                              IF DOMAIN str.doc.members = {} THEN None
                              ELSE Some(str.doc.members)))

ParseFeatureCollection(str) ==
    IF ~str.well_formed THEN Err("syntax error")
    ELSE IF str.doc.type # "FeatureCollection" THEN Err("not a FeatureCollection")
    ELSE Ok(FeatureCollection(str.doc.features,
                              IF DOMAIN str.doc.members = {} THEN None
                              ELSE Some(str.doc.members)))

\* drawing.rs 74-119
to_geojson_str(pl, st, layer_id) ==
    LET feature_of(polyline) ==
            LET feature == FeatureFromPolyline(polyline)
            IN  IF feature.properties # None
                THEN [feature EXCEPT !.properties =
                         Some(MapInsert(MapInsert(MapInsert(feature.properties[1],
                             "stroke_width", JsonFloat(st.width)),
                             "stroke_color", JsonString(to_hex(st.color))),
                             "layer_id", JsonString(layer_id)))]
                ELSE feature
        foreign_members ==
            MapInsert(MapInsert(MapInsert(EmptyMap,
                "stroke_width", JsonFloat(st.width)),
                "stroke_color", JsonString(to_hex(st.color))),
                "layer_id", JsonString(layer_id))
    IN  JsonText(FeatureCollection([i \in 1..Len(pl) |-> feature_of(pl[i])],
                                   Some(foreign_members)))

\* drawing.rs 137-156: the feature passes the layer_id filter
MatchesLayer(f, layer_id) ==
    \/ layer_id = None
    \/ /\ f.properties # None
       /\ MapGet(f.properties[1], "layer_id") # None
       /\ as_str(MapGet(f.properties[1], "layer_id")[1]) = Some(layer_id[1])

\* the stroke after the stroke_width and stroke_color of a property map
StrokeFrom(properties, st) ==
    Stroke(WidthProperty(properties, "stroke_width", st.width),
           ColorProperty(properties, "stroke_color", st.color))

\* drawing.rs 132-177: the filter_map closure over the features from k on;
\* acc holds new_polylines and self.stroke
RECURSIVE CollectPolylinesUnfiltered(_, _, _, _)
CollectPolylinesUnfiltered(features, k, layer_id, acc) ==
    IF k > Len(features) THEN acc
    ELSE
    LET f == features[k]
        polyline == PolylineTryFromFeature(f)
        next == IF polyline.ok
                THEN [new_polylines |-> Append(acc.new_polylines, polyline.value),
                      stroke |-> IF f.properties # None
                                 THEN StrokeFrom(f.properties[1], acc.stroke)
                                 ELSE acc.stroke]
                ELSE acc
    IN  CollectPolylinesUnfiltered(features, k + 1, layer_id, next)

RECURSIVE CollectPolylines(_, _, _, _)
CollectPolylines(features, k, layer_id, acc) ==
    IF k > Len(features) THEN acc
    ELSE
    LET f == features[k]
        polyline == PolylineTryFromFeature(f)
        next == IF MatchesLayer(f, layer_id) /\ polyline.ok
                THEN [new_polylines |-> Append(acc.new_polylines, polyline.value),
                      stroke |-> IF f.properties # None
                                 THEN StrokeFrom(f.properties[1], acc.stroke)
                                 ELSE acc.stroke]
                ELSE acc
    IN  CollectPolylines(features, k + 1, layer_id, next)

\* from_geojson_str without the collection's own stroke members
FromGeojsonStrFeaturesOnly(pl, st, str, layer_id) ==
    LET parsed == ParseFeatureCollection(str)
    IN  IF ~parsed.ok THEN [result |-> parsed, polylines |-> pl, stroke |-> st]
        ELSE
        LET feature_collection == parsed.value
            acc == CollectPolylines(feature_collection.features, 1, layer_id,
                                    [new_polylines |-> << >>, stroke |-> st])
        IN  [result |-> Ok("unit"),
             polylines |-> pl \o acc.new_polylines,
             stroke |-> acc.stroke]

\* drawing.rs 126-206: the result and the layer after the call
from_geojson_str(pl, st, str, layer_id) ==
    LET parsed == ParseFeatureCollection(str)
    IN  IF ~parsed.ok THEN [result |-> parsed, polylines |-> pl, stroke |-> st]
        ELSE
        LET feature_collection == parsed.value
            acc == CollectPolylines(feature_collection.features, 1, layer_id,
                                    [new_polylines |-> << >>, stroke |-> st])
        IN  [result |-> Ok("unit"),
             polylines |-> pl \o acc.new_polylines,
             stroke |-> IF feature_collection.foreign_members # None
                        THEN StrokeFrom(feature_collection.foreign_members[1], acc.stroke)
                        ELSE acc.stroke]

---------------------------------------------------------------------------
(* SpecGeo: shapes drawn from bounded sets are encoded and decoded,        *)
(* features are decoded, and a DrawingLayer is exported and imported.      *)

MaxImports == 1

P1 == <<10, 20>>

P2 == <<30, 40>>

P3 == <<50, -60>>

PointLists == {<< >>, <<P1>>, <<P1, P1>>, <<P1, P2>>, <<P1, P2, P3>>,
               <<P1, P2, P1>>, <<P1, P2, P3, P1>>}

GeoStrokes == {Stroke(1, RED), Stroke(5, BLUE)}

GeoFills == {TRANSPARENT, Color32(18, 52, 171, 128)}

\* radii in metres; a radius-handle drag onto the center leaves 0
\* (area.rs 211-226)
CircleRadii == {0, 1, 250}

AreaValues ==
    {PolygonArea(pts, st, fill) : pts \in PointLists, st \in GeoStrokes, fill \in GeoFills}
    \cup {CircleArea(c, r, n, st, fill) :
            c \in {P1, P3}, r \in CircleRadii, n \in {None, Some(16)},
            st \in GeoStrokes, fill \in {TRANSPARENT}}

TextValues ==
    {Text(str, pos, TextSize(k, v), BLACK, bg) :
        str \in {"", "Helsinki"}, pos \in {P1, P3}, k \in {"Static", "Relative"},
        v \in {12, 1000}, bg \in {TextDefault.background, TRANSPARENT}}

\* Point features with and without a usable radius, and features that are
\* no Point
DecodeInputs ==
    LET point == Some(Geometry("Point", <<10, 20>>))
        props(radius) == Some(MapInsert(add_version_to_properties(EmptyMap),
                                        "radius", radius))
    IN  {Feature(point, props(r)) :
            r \in {JsonFloat(250), JsonInt(3), JsonFloat(0), JsonFloat(-5), JsonInt(0),
                   JsonString("250"), JsonNull}}
        \cup {Feature(point, Some(add_version_to_properties(EmptyMap))),
              Feature(point, Some(EmptyMap)),
              Feature(point, None),
              Feature(None, props(JsonFloat(250))),
              Feature(None, None),
              Feature(Some(Geometry("Point", <<10, 20, 5>>)), props(JsonFloat(250))),
              Feature(Some(Geometry("LineString", <<P1, P2>>)), props(JsonFloat(250))),
              Feature(Some(Geometry("MultiPoint", <<P1, P2>>)), props(JsonFloat(250))),
              Feature(Some(Geometry("Polygon", << >>)), None),
              Feature(Some(Geometry("Polygon", <<<<P1, P2, P3>>>>)), None)}

LayerIds == {"a", "b"}

\* a LineString feature with the given properties
Line(points, properties) == Feature(Some(Geometry("LineString", points)), properties)

\* a file of features of several layers and kinds
MixedFile ==
    JsonText(FeatureCollection(
        <<Line(<<P1, P2>>, Some(MapInsert(MapInsert(EmptyMap,
              "layer_id", JsonString("a")), "stroke_width", JsonFloat(3)))),
          Feature(Some(Geometry("Point", P3)),
                  Some(MapInsert(EmptyMap, "layer_id", JsonString("a")))),
          Line(<<P2, P3>>, Some(MapInsert(MapInsert(EmptyMap,
              "layer_id", JsonString("b")), "stroke_color", JsonString("#00ff00")))),
          Line(<<P3, P1>>, None),
          Line(<<P1, P3>>, Some(MapInsert(EmptyMap, "layer_id", JsonInt(7)))),
          Line(<<P3, P2, P1>>, Some(MapInsert(EmptyMap, "layer_id", JsonString("a")))),
          Line(<<P2, P1>>, Some(EmptyMap))>>,
        Some(MapInsert(EmptyMap, "stroke_width", JsonFloat(7)))))

\* a file whose only feature has the wrong geometry type
PointFile ==
    JsonText(FeatureCollection(
        <<Feature(Some(Geometry("Point", P3)),
                  Some(MapInsert(MapInsert(EmptyMap, "layer_id", JsonString("a")),
                                 "stroke_width", JsonFloat(9))))>>,
        None))

ImportTexts ==
    {[well_formed |-> FALSE, doc |-> JsonNull],
     [well_formed |-> TRUE, doc |-> [type |-> "Feature"]],
     MixedFile, PointFile,
     JsonText(FeatureCollection(<< >>, None)),
     JsonText(FeatureCollection(<<Line(<<P1, P2>>, None)>>, None)),
     to_geojson_str(<<<<P1, P2>>, <<P3>>>>, Stroke(5, BLUE), "a"),
     to_geojson_str(<< >>, Stroke(4, BLACK), "b")}

GeoLayers == {<< >>, <<<<P1, P2, P3>>>>, <<<<P3, P2>>, << >>, <<P1>>>>}

\* Area::try_from, Polyline::try_from and Text::try_from of one feature:
\* which of the three decoders accept it
DecodeAll(feature) ==
    [area |-> AreaTryFromFeature(feature).ok,
     polyline |-> PolylineTryFromFeature(feature).ok,
     text |-> TextTryFromFeature(feature).ok]

\* From<Area> for Feature, then TryFrom<Feature> for Area.  A conversion
\* does not read the layer: each is applied to its input from the initial
\* state.
CodecArea(area) ==
    /\ op.kind = "none"
    /\ op' = [kind |-> "area", value |-> area, feature |-> FeatureFromArea(area),
              decoded |-> AreaTryFromFeature(FeatureFromArea(area)),
              accepted |-> DecodeAll(FeatureFromArea(area))]
    /\ UNCHANGED <<mapVars, areas, dragged_object, polylines, stroke, textVars>>

CodecPolyline(polyline) ==
    /\ op.kind = "none"
    /\ op' = [kind |-> "polyline", value |-> polyline,
              feature |-> FeatureFromPolyline(polyline),
              decoded |-> PolylineTryFromFeature(FeatureFromPolyline(polyline)),
              accepted |-> DecodeAll(FeatureFromPolyline(polyline))]
    /\ UNCHANGED <<mapVars, areas, dragged_object, polylines, stroke, textVars>>

CodecText(text) ==
    /\ op.kind = "none"
    /\ op' = [kind |-> "text", value |-> text, feature |-> FeatureFromText(text),
              decoded |-> TextTryFromFeature(FeatureFromText(text)),
              accepted |-> DecodeAll(FeatureFromText(text))]
    /\ UNCHANGED <<mapVars, areas, dragged_object, polylines, stroke, textVars>>

\* TryFrom<Feature> for Area
DecodeArea(feature) ==
    /\ op.kind = "none"
    /\ op' = [kind |-> "decode_area", feature |-> feature,
              decoded |-> AreaTryFromFeature(feature)]
    /\ UNCHANGED <<mapVars, areas, dragged_object, polylines, stroke, textVars>>

\* to_geojson_str of the layer, and from_geojson_str of the output on a
\* DrawingLayer::default()
Export(layer_id) ==
    LET str == to_geojson_str(polylines, stroke, layer_id)
    IN  /\ op' = [kind |-> "export", layer_id |-> layer_id, text |-> str,
                  rebuilt |-> from_geojson_str(<< >>, Stroke(2, RED), str, Some(layer_id))]
        /\ UNCHANGED <<mapVars, areas, dragged_object, polylines, stroke, textVars>>

\* from_geojson_str on the layer
Import(str, layer_id) ==
    LET r == from_geojson_str(polylines, stroke, str, layer_id)
    IN  /\ done < MaxImports
        /\ polylines' = r.polylines
        /\ stroke' = r.stroke
        /\ done' = done + 1
        /\ op' = [kind |-> "import", text |-> str, layer_id |-> layer_id,
                  polylines |-> polylines, stroke |-> stroke, result |-> r.result]
        /\ UNCHANGED <<center, zoom, tiles, mouse_pos, rect, fetches, repaint, last,
                       frames, areas, dragged_object, textVars>>

InitGeo ==
    /\ rect = AreaRect
    /\ zoom = MAX_ZOOM
    /\ center = Origin
    /\ tiles = [t \in {} |-> Failed]
    /\ fetches = [t \in {} |-> 0]
    /\ mouse_pos = None
    /\ repaint = FALSE
    /\ last = [resp |-> NoInput,
               pre |-> [center |-> center, zoom |-> zoom, tiles |-> tiles],
               afterPan |-> center, afterDbl |-> [center |-> center, zoom |-> zoom]]
    /\ frames = 0
    /\ done = 0
    /\ areas = << >>
    /\ dragged_object = None
    /\ polylines \in GeoLayers
    /\ stroke \in {Stroke(2, RED), Stroke(6, Color32(1, 2, 3, 4))}
    /\ NoTexts
    /\ op = [kind |-> "none"]

DoCodecArea == \E area \in AreaValues : CodecArea(area)

DoCodecPolyline == \E polyline \in PointLists : CodecPolyline(polyline)

DoCodecText == \E text \in TextValues : CodecText(text)

DoDecodeArea == \E feature \in DecodeInputs : DecodeArea(feature)

DoExport == \E layer_id \in LayerIds : Export(layer_id)

DoImport ==
    \E str \in ImportTexts, layer_id \in {None} \cup {Some(id) : id \in LayerIds \cup {"zz"}} :
        Import(str, layer_id)

NextGeo ==
    \/ DoCodecArea \/ DoCodecPolyline \/ DoCodecText
    \/ DoDecodeArea \/ DoExport \/ DoImport

SpecGeo == InitGeo /\ [][NextGeo]_vars

---------------------------------------------------------------------------
(* TextLayer, src/src/layers/text.rs.  Indices are counted from 1: index   *)
(* i of the model is index i - 1 of the source.  The size of a laid-out    *)
(* text is computed by egui's fonts; the model gives every galley the same *)
(* size.                                                                   *)

\* EditingText { index, properties }
EditingText(index, properties) == [index |-> index, properties |-> properties]

\* TextLayer.new_text_properties, as TextLayer::default makes it
new_text_properties == TextDefault

\* galley.size() of get_text_rect, in pixels
GalleySize == <<16, 8>>

\* text.rs 327-338: the rectangle of the galley centred on the projected
\* position, as [min, max] in units
get_text_rect(text, p) ==
    LET centred(screen_pos, half) ==
            [min |-> <<screen_pos[1] - half[1], screen_pos[2] - half[2]>>,
             max |-> <<screen_pos[1] + half[1], screen_pos[2] + half[2]>>]
    IN  centred(project(p, text.pos),
                <<GalleySize[1] * (Px(p.zoom) \div 2),
                  GalleySize[2] * (Px(p.zoom) \div 2)>>)

\* text.rs 258-273: the last text whose rectangle, expanded by 5 pixels,
\* contains the position
find_text_at(ts, p, screen_pos) ==
    LET contains(r, e) ==
            /\ r.min[1] - e <= screen_pos[1] /\ screen_pos[1] <= r.max[1] + e
            /\ r.min[2] - e <= screen_pos[2] /\ screen_pos[2] <= r.max[2] + e
        last_text(hits) ==
            IF hits = {} THEN None
            ELSE Some(CHOOSE x \in hits : \A y \in hits : y <= x)
    IN  last_text({i \in 1..Len(ts) :
                      contains(get_text_rect(ts[i], p), 5 * Px(p.zoom))})

\* text.rs 158-165: the new value of editing
start_editing(ts, ed, index) ==
    IF index \in 1..Len(ts)
    THEN Some(EditingText(Some(index), ts[index]))
    ELSE ed

\* text.rs 168-172: the new value of texts
delete(ts, index) ==
    IF index \in 1..Len(ts)
    THEN SubSeq(ts, 1, index - 1) \o SubSeq(ts, index + 1, Len(ts))
    ELSE ts

\* text.rs 175-187: the new values of texts and editing
commit_edit(ts, ed) ==
    IF ed # None
    THEN [texts |->
             IF ed[1].index # None
             THEN IF ed[1].index[1] \in 1..Len(ts)
                  THEN [ts EXCEPT ![ed[1].index[1]] = ed[1].properties]
                  ELSE ts
             ELSE Append(ts, ed[1].properties),
          editing |-> None]
    ELSE [texts |-> ts, editing |-> ed]

\* text.rs 190-192: the new value of editing
cancel_edit(ed) == None

\* text.rs 194-255
TextHandleModifyWhileEditing(ts, ed, dr, p, resp) ==
    LET clicked(moved) ==
            IF ~resp.dragged /\ resp.clicked /\ resp.interact_pointer_pos # None
            THEN LET on_text(pointer_pos, found) ==
                         IF found # None
                         THEN start_editing(moved, ed, found[1])
                         ELSE Some(EditingText(None,
                                  [new_text_properties EXCEPT
                                      !.pos = unproject(p, pointer_pos)]))
                 IN  on_text(resp.interact_pointer_pos[1],
                             find_text_at(moved, p, resp.interact_pointer_pos[1]))
            ELSE ed
        dragged(grabbed) ==
            IF /\ resp.dragged /\ grabbed # None
               /\ grabbed[1] \in 1..Len(ts) /\ resp.interact_pointer_pos # None
            THEN [ts EXCEPT ![grabbed[1]].pos =
                     unproject(p, resp.interact_pointer_pos[1])]
            ELSE ts
        drag(grabbed) ==
            [texts |-> dragged(grabbed),
             editing |-> clicked(dragged(grabbed)),
             dragged_text_index |-> IF resp.drag_stopped THEN None ELSE grabbed,
             handled |-> resp.hovered]
    IN  drag(IF resp.drag_started /\ resp.interact_pointer_pos # None
             THEN find_text_at(ts, p, resp.interact_pointer_pos[1])
             ELSE dr)

TextLayer_handle_modify_input(ts, ed, dr, p, resp) ==
    LET clicked(moved) ==
            IF ~resp.dragged /\ resp.clicked /\ resp.interact_pointer_pos # None
            THEN LET on_text(pointer_pos, found) ==
                         IF found # None
                         THEN start_editing(moved, ed, found[1])
                         ELSE Some(EditingText(None,
                                  [new_text_properties EXCEPT
                                      !.pos = unproject(p, pointer_pos)]))
                 IN  on_text(resp.interact_pointer_pos[1],
                             find_text_at(moved, p, resp.interact_pointer_pos[1]))
            ELSE ed
        dragged(grabbed) ==
            IF /\ resp.dragged /\ grabbed # None
               /\ grabbed[1] \in 1..Len(ts) /\ resp.interact_pointer_pos # None
            THEN [ts EXCEPT ![grabbed[1]].pos =
                     unproject(p, resp.interact_pointer_pos[1])]
            ELSE ts
        drag(grabbed) ==
            [texts |-> dragged(grabbed),
             editing |-> clicked(dragged(grabbed)),
             dragged_text_index |-> IF resp.drag_stopped THEN None ELSE grabbed,
             handled |-> resp.hovered]
    IN  IF ed # None
        THEN [texts |-> ts, editing |-> ed, dragged_text_index |-> dr,
              handled |-> resp.hovered]
        ELSE drag(IF resp.drag_started /\ resp.interact_pointer_pos # None
                  THEN find_text_at(ts, p, resp.interact_pointer_pos[1])
                  ELSE dr)

\* text.rs 285-290
TextLayer_handle_input(mode, ts, ed, dr, p, resp) ==
    IF mode = "Disabled"
    THEN [texts |-> ts, editing |-> ed, dragged_text_index |-> dr,
          handled |-> FALSE]
    ELSE TextLayer_handle_modify_input(ts, ed, dr, p, resp)

\* the history of a TextLayer operation: its name, its input and the state
\* before it
TextOp(call, arg, handled) ==
    [kind |-> "text", call |-> call, arg |-> arg, texts |-> texts,
     editing |-> editing, dragged_text_index |-> dragged_text_index,
     handled |-> handled]

\* Layer::handle_input of a TextLayer: one frame
TextFrame(mode, resp) ==
    LET frame(h) ==
            /\ texts' = h.texts
            /\ editing' = h.editing
            /\ dragged_text_index' = h.dragged_text_index
            /\ op' = TextOp("handle_input", [mode |-> mode, resp |-> resp], h.handled)
    IN  /\ frame(TextLayer_handle_input(mode, texts, editing, dragged_text_index,
                                        Projection, resp))
        /\ frames' = frames + 1
        /\ UNCHANGED <<center, zoom, tiles, mouse_pos, rect, fetches, repaint,
                       last, done, areas, dragged_object, polylines, stroke>>

\* the application calls TextLayer::start_editing
StartEditing(index) ==
    /\ editing' = start_editing(texts, editing, index)
    /\ op' = TextOp("start_editing", index, FALSE)
    /\ frames' = frames + 1
    /\ UNCHANGED <<center, zoom, tiles, mouse_pos, rect, fetches, repaint,
                   last, done, areas, dragged_object, polylines, stroke,
                   texts, dragged_text_index>>

\* the application calls TextLayer::delete
Delete(index) ==
    /\ texts' = delete(texts, index)
    /\ op' = TextOp("delete", index, FALSE)
    /\ frames' = frames + 1
    /\ UNCHANGED <<center, zoom, tiles, mouse_pos, rect, fetches, repaint,
                   last, done, areas, dragged_object, polylines, stroke,
                   editing, dragged_text_index>>

\* the application calls TextLayer::commit_edit
CommitEdit ==
    LET commit(c) == texts' = c.texts /\ editing' = c.editing
    IN  /\ commit(commit_edit(texts, editing))
        /\ op' = TextOp("commit_edit", None, FALSE)
        /\ frames' = frames + 1
        /\ UNCHANGED <<center, zoom, tiles, mouse_pos, rect, fetches, repaint,
                       last, done, areas, dragged_object, polylines, stroke,
                       dragged_text_index>>

\* the application calls TextLayer::cancel_edit
CancelEdit ==
    /\ editing' = cancel_edit(editing)
    /\ op' = TextOp("cancel_edit", None, FALSE)
    /\ frames' = frames + 1
    /\ UNCHANGED <<center, zoom, tiles, mouse_pos, rect, fetches, repaint,
                   last, done, areas, dragged_object, polylines, stroke,
                   texts, dragged_text_index>>

\* the edit dialog writes the draft through the public field
\* (examples/place_text.rs 83-146)
EditDraft(str) ==
    /\ editing # None
    /\ editing' = Some([editing[1] EXCEPT !.properties.text = str])
    /\ op' = TextOp("edit_draft", str, FALSE)
    /\ frames' = frames + 1
    /\ UNCHANGED <<center, zoom, tiles, mouse_pos, rect, fetches, repaint,
                   last, done, areas, dragged_object, polylines, stroke,
                   texts, dragged_text_index>>

---------------------------------------------------------------------------
(* SpecText: a TextLayer in Modify mode under a fixed projection, fed a    *)
(* bounded number of frames and calls of its public operations.            *)

MaxTextSteps == 4

TextA == Text("A", GeoAt(<<16, 16>>), TextSize("Static", 12), BLACK, TRANSPARENT)

TextB == Text("B", GeoAt(<<48, 48>>), TextSize("Static", 12), BLUE, TRANSPARENT)

TextLayers == {<< >>, <<TextA>>, <<TextA, TextB>>}

\* the responses of a widget that senses clicks and drags (lib.rs 504): a
\* click, a drag start, a drag and a drag stop, on a text and in the open
TextInputs ==
    LET at(pixel) == Some(Pos2(MAX_ZOOM, pixel))
    IN  {LayerResponse(TRUE, FALSE, FALSE, FALSE, FALSE, at(q), TRUE, FALSE) :
            q \in {<<16, 16>>, <<32, 32>>}}
        \cup {LayerResponse(FALSE, FALSE, TRUE, d, FALSE, at(q), TRUE, FALSE) :
            q \in {<<16, 16>>, <<32, 32>>}, d \in BOOLEAN}
        \cup {LayerResponse(FALSE, FALSE, FALSE, TRUE, st, at(<<32, 32>>), TRUE, FALSE) :
            st \in BOOLEAN}
        \cup {LayerResponse(FALSE, FALSE, FALSE, FALSE, TRUE, None, FALSE, FALSE),
              LayerResponse(FALSE, FALSE, FALSE, FALSE, FALSE, at(<<32, 32>>), TRUE, FALSE)}

\* indices the application passes, 3 being past the end of every list
TextIndices == 1..3

InitText ==
    /\ rect = AreaRect
    /\ zoom = MAX_ZOOM
    /\ center = Origin
    /\ tiles = [t \in {} |-> Failed]
    /\ fetches = [t \in {} |-> 0]
    /\ mouse_pos = None
    /\ repaint = FALSE
    /\ last = [resp |-> NoInput,
               pre |-> [center |-> center, zoom |-> zoom, tiles |-> tiles],
               afterPan |-> center, afterDbl |-> [center |-> center, zoom |-> zoom]]
    /\ frames = 0
    /\ done = 0
    /\ areas = << >>
    /\ dragged_object = None
    /\ polylines = << >>
    /\ stroke = Stroke(2, RED)
    /\ texts \in TextLayers
    /\ editing = None
    /\ dragged_text_index = None
    /\ op = [kind |-> "none"]

DoTextFrame == \E resp \in TextInputs : frames < MaxTextSteps /\ TextFrame("Modify", resp)

DoStartEditing == \E i \in TextIndices : frames < MaxTextSteps /\ StartEditing(i)

DoDelete == \E i \in TextIndices : frames < MaxTextSteps /\ Delete(i)

DoCommitEdit == frames < MaxTextSteps /\ CommitEdit

DoCancelEdit == frames < MaxTextSteps /\ CancelEdit

DoEditDraft == \E str \in {"C"} : frames < MaxTextSteps /\ EditDraft(str)

NextText ==
    \/ DoTextFrame \/ DoStartEditing \/ DoDelete
    \/ DoCommitEdit \/ DoCancelEdit \/ DoEditDraft

SpecText == InitText /\ [][NextText]_vars

---------------------------------------------------------------------------
(* Layer::handle_input of the three layers, with the mode the application  *)
(* has set in the layer's public mode field.                               *)

\* area.rs 441-446
AreaHandleInputAnyMode(mode, ar, dr, p, resp) == handle_modify_input(ar, dr, p, resp)

\* area.rs 441-446
AreaLayer_handle_input(mode, ar, dr, p, resp) ==
    IF mode = "Disabled"
    THEN [areas |-> ar, dragged_object |-> dr, grabbed |-> dr,
          inserted |-> FALSE, handled |-> FALSE]
    ELSE handle_modify_input(ar, dr, p, resp)

\* drawing.rs 310-316
DrawingLayer_handle_input(draw_mode, pl, width, p, resp) ==
    IF draw_mode = "Disabled" THEN [polylines |-> pl, handled |-> FALSE]
    ELSE IF draw_mode = "Draw" THEN handle_draw_input(pl, p, resp)
    ELSE handle_erase_input(pl, width, p, resp)

\* one frame of an AreaLayer whose mode is `mode`
AreaLayerFrame(mode, resp) ==
    LET frame(h) ==
            /\ areas' = h.areas
            /\ dragged_object' = h.dragged_object
            /\ op' = [kind |-> "area", mode |-> mode, resp |-> resp,
                      areas |-> areas, dragged_object |-> dragged_object,
                      handled |-> h.handled]
    IN  /\ frame(AreaLayer_handle_input(mode, areas, dragged_object, Projection, resp))
        /\ frames' = frames + 1
        /\ UNCHANGED <<center, zoom, tiles, mouse_pos, rect, fetches, repaint,
                       last, done, polylines, stroke, textVars>>

\* one frame of a DrawingLayer whose draw_mode is `draw_mode`
DrawingLayerFrame(draw_mode, resp) ==
    LET frame(h) ==
            /\ polylines' = h.polylines
            /\ op' = [kind |-> "drawing", mode |-> draw_mode, resp |-> resp,
                      polylines |-> polylines, handled |-> h.handled]
    IN  /\ frame(DrawingLayer_handle_input(draw_mode, polylines, stroke.width,
                                           Projection, resp))
        /\ frames' = frames + 1
        /\ UNCHANGED <<center, zoom, tiles, mouse_pos, rect, fetches, repaint,
                       last, done, areas, dragged_object, stroke, textVars>>

---------------------------------------------------------------------------
(* SpecModes: a map with an AreaLayer, a DrawingLayer and a TextLayer      *)
(* under a fixed projection; every frame one of the layers receives a      *)
(* response in one of its modes.                                           *)

MaxModeFrames == 3

AreaModes == {"Disabled", "Modify"}

DrawModes == {"Disabled", "Draw", "Erase"}

TextLayerModes == {"Disabled", "Modify"}

\* a click, a drag start and a drag on a node of Square, which is where
\* TextA stands, a drag into the open, a drag stop and a hover over Long3
ModeInputs ==
    LET at(pixel) == Some(Pos2(MAX_ZOOM, pixel))
    IN  {LayerResponse(TRUE, FALSE, FALSE, FALSE, FALSE, at(<<16, 16>>), TRUE, FALSE),
         LayerResponse(FALSE, FALSE, TRUE, TRUE, FALSE, at(<<16, 16>>), TRUE, FALSE),
         LayerResponse(FALSE, FALSE, FALSE, TRUE, FALSE, at(<<24, 32>>), TRUE, FALSE),
         LayerResponse(FALSE, FALSE, FALSE, TRUE, TRUE, at(<<24, 32>>), TRUE, FALSE),
         LayerResponse(FALSE, FALSE, FALSE, FALSE, FALSE, at(<<32, 32>>), TRUE, FALSE)}

InitModes ==
    /\ rect = AreaRect
    /\ zoom = MAX_ZOOM
    /\ center = Origin
    /\ tiles = [t \in {} |-> Failed]
    /\ fetches = [t \in {} |-> 0]
    /\ mouse_pos = None
    /\ repaint = FALSE
    /\ last = [resp |-> NoInput,
               pre |-> [center |-> center, zoom |-> zoom, tiles |-> tiles],
               afterPan |-> center, afterDbl |-> [center |-> center, zoom |-> zoom]]
    /\ frames = 0
    /\ done = 0
    /\ areas = <<Square>>
    /\ dragged_object = None
    /\ polylines = <<Long3>>
    /\ stroke = Stroke(6, RED)
    /\ texts = <<TextA>>
    /\ editing = None
    /\ dragged_text_index = None
    /\ op = [kind |-> "none"]

AreaInput ==
    \E mode \in AreaModes, resp \in ModeInputs :
        frames < MaxModeFrames /\ AreaLayerFrame(mode, resp)

DrawingInput ==
    \E draw_mode \in DrawModes, resp \in ModeInputs :
        frames < MaxModeFrames /\ DrawingLayerFrame(draw_mode, resp)

TextInput ==
    \E mode \in TextLayerModes, resp \in ModeInputs :
        frames < MaxModeFrames /\ TextFrame(mode, resp)

NextModes == AreaInput \/ DrawingInput \/ TextInput

SpecModes == InitModes /\ [][NextModes]_vars

---------------------------------------------------------------------------
(* Projection properties, checked under SpecProj *)

\* n is an f32 value
Exact(n) == AsF32(n) = n

\* the offset of a geographic position from the projector's center in screen
\* units, and its screen position in exact arithmetic
Offset(p, g) ==
    <<lon_to_x(g[1], p.zoom) - lon_to_x(p.center_lon, p.zoom),
      lat_to_y(g[2], p.zoom) - lat_to_y(p.center_lat, p.zoom)>>

ExactPos(p, g) == <<RectCenter(p)[1] + Offset(p, g)[1], RectCenter(p)[2] + Offset(p, g)[2]>>

\* every f32 step of project and of the unproject after it is exact for g
ProjectsExactly(p, g) ==
    \A i \in 1..2 :
        /\ Exact(Offset(p, g)[i])
        /\ Exact(ExactPos(p, g)[i])
        /\ Exact(ExactPos(p, g)[i] - RectMin(p)[i])

\* the sum of the magnitudes that project and unproject round to 24 bits
Magnitude(p, g, i) ==
    Abs(Offset(p, g)[i]) + Abs(ExactPos(p, g)[i]) + Abs(ExactPos(p, g)[i] - RectMin(p)[i])

\* the same for unproject and the project after it
PosMagnitude(p, pos, i) ==
    Abs(pos[i] - RectMin(p)[i]) + Abs(pos[i] - RectCenter(p)[i]) + Abs(pos[i])

\* a screen position on a whole pixel
WholePixel(p, pos) == pos[1] % Px(p.zoom) = 0 /\ pos[2] % Px(p.zoom) = 0

---------------------------------------------------------------------------
(* AreaLayer properties, checked under SpecArea *)

\* twice the signed area of the triangle p, q, r
Cross(p, q, r) == (q[1] - p[1]) * (r[2] - p[2]) - (q[2] - p[2]) * (r[1] - p[1])

\* r and s lie strictly on opposite sides of the line through p and q
Separates(p, q, r, s) ==
    \/ Cross(p, q, r) > 0 /\ Cross(p, q, s) < 0
    \/ Cross(p, q, r) < 0 /\ Cross(p, q, s) > 0

\* the open segments p-q and r-s have a point in common and are not parallel
Crosses(p, q, r, s) == Separates(p, q, r, s) /\ Separates(r, s, p, q)

\* the frame recorded in op drags a grabbed node of a polygon
DragsNode ==
    /\ op.kind = "area" /\ ~op.inserted
    /\ op.resp.dragged /\ op.resp.interact_pointer_pos # None
    /\ op.grabbed # None

\* moving node n of the polygon pts to the screen position pos would make an
\* edge incident to n cross an edge that does not touch n
WouldCross(pts, n, pos) ==
    LET len == Len(pts)
        sp == [i \in 1..len |-> project(Projection, pts[i])]
        others == {i \in 1..len : i # n /\ NextIdx(i, len) # n}
    IN  \E i \in others :
           \/ Crosses(sp[PrevIdx(n, len)], pos, sp[i], sp[NextIdx(i, len)])
           \/ Crosses(pos, sp[NextIdx(n, len)], sp[i], sp[NextIdx(i, len)])

CrossingDrag ==
    /\ DragsNode
    /\ LET pts == op.areas[op.grabbed[1].area_index].points
       IN  /\ Len(pts) >= 4
           /\ WouldCross(pts, op.grabbed[1].node_index, op.resp.interact_pointer_pos[1])

\* C11: a Modify-mode drag frame that would make an edge incident to the
\* dragged node of a polygon of four or more nodes cross an edge that does
\* not touch the node leaves every node of every area where it was.
C11_CrossingDragRejected == CrossingDrag => areas = op.areas

C11_Witness ==
    /\ CrossingDrag
    /\ areas = op.areas
    /\ LET g == op.grabbed[1]
       IN  unproject(Projection, op.resp.interact_pointer_pos[1])
              # op.areas[g.area_index].points[g.node_index]

\* the double-click of the frame recorded in op is within the edge tolerance
\* of edge i of polygon a and not within the node tolerance of any node
DoubleClickOnEdge(a, i) ==
    /\ op.kind = "area"
    /\ op.resp.double_clicked /\ op.resp.interact_pointer_pos # None
    /\ LET pos == op.resp.interact_pointer_pos[1]
       IN  /\ find_line_segment_at(op.areas, Projection, pos) = Some(<<a, i>>)
           /\ find_object_at(op.areas, Projection, pos) = None

\* C12: a Modify-mode double-click within the edge tolerance of a polygon
\* edge and not on a node inserts exactly one node right after the edge's
\* start index; the other nodes keep their order and every other area is
\* unchanged.
C12_DoubleClickInsertsNode ==
    op.kind = "area" =>
    \A a \in 1..Len(op.areas) : \A i \in 1..Len(op.areas[a].points) :
        DoubleClickOnEdge(a, i) =>
            /\ Len(areas) = Len(op.areas)
            /\ Len(areas[a].points) = Len(op.areas[a].points) + 1
            /\ \E v \in {areas[a].points[i + 1]} :
                  areas = [op.areas EXCEPT ![a].points = Insert(@, i, v)]

---------------------------------------------------------------------------
(* DrawingLayer properties, checked under SpecDraw *)

\* the frame recorded in op erased at its pointer position
ErasesAt ==
    /\ op.kind = "erase"
    /\ op.resp.dragged \/ op.resp.clicked
    /\ op.resp.interact_pointer_pos # None

\* the eraser of the frame recorded in op covers the position pt
Covered(pt) ==
    LengthSq(Sub(project(Projection, pt), op.resp.interact_pointer_pos[1]))
        < EraseRadiusSq(Projection, stroke.width)

\* segment i of the polyline l is within the eraser's radius
SegmentNear(l, i) ==
    FracLess(dist_sq_to_segment(op.resp.interact_pointer_pos[1],
                 project(Projection, l[i]), project(Projection, l[i + 1])),
             EraseRadiusSq(Projection, stroke.width))

\* three points on a line of the screen, the second between the others
Straight3(l) ==
    /\ Len(l) = 3
    /\ LET sp == [i \in 1..3 |-> project(Projection, l[i])]
       IN  /\ Cross(sp[1], sp[2], sp[3]) = 0
           /\ Dot(Sub(sp[1], sp[2]), Sub(sp[3], sp[2])) < 0

\* the layer held one straight 3-point polyline and the eraser covered its
\* middle point and neither end
MiddleErased ==
    /\ ErasesAt
    /\ Len(op.polylines) = 1
    /\ Straight3(op.polylines[1])
    /\ Covered(op.polylines[1][2])
    /\ ~Covered(op.polylines[1][1]) /\ ~Covered(op.polylines[1][3])

\* C13 as stated: erasing the middle point of a straight 3-point polyline,
\* not its ends, leaves exactly two polylines of two or more points, and
\* none is left only when the eraser covers the entire line.
C13_Original ==
    /\ MiddleErased =>
          /\ Len(polylines) = 2
          /\ \A k \in 1..Len(polylines) : Len(polylines[k]) >= 2
    /\ (ErasesAt /\ Len(op.polylines) = 1 /\ Straight3(op.polylines[1])
        /\ polylines = << >>) =>
          \A i \in 1..3 : Covered(op.polylines[1][i])

\* C13, amended: a 3-point polyline is erased by whole segments.  With the
\* middle point covered both segments are within the radius and nothing is
\* left; otherwise exactly one polyline of two or more points is left, and
\* nothing is left exactly when both segments are within the radius.
C13_ErasedBySegments ==
    (ErasesAt /\ Len(op.polylines) = 1 /\ Len(op.polylines[1]) = 3) =>
        LET l == op.polylines[1]
        IN  /\ (Straight3(l) /\ Covered(l[2])) => polylines = << >>
            /\ polylines = << >> <=> (SegmentNear(l, 1) /\ SegmentNear(l, 2))
            /\ Len(polylines) <= 1
            /\ \A k \in 1..Len(polylines) : Len(polylines[k]) >= 2

C13_Witness == MiddleErased /\ polylines = << >>

\* no segment of any polyline was within the eraser's radius
EmptySpace ==
    /\ ErasesAt
    /\ \A k \in 1..Len(op.polylines) :
          \A i \in 1..(Len(op.polylines[k]) - 1) : ~SegmentNear(op.polylines[k], i)

\* C14: an erase frame with no segment of any polyline within the eraser's
\* radius leaves the list of polylines exactly as it was.
C14_EraseEmptySpaceNoOp == EmptySpace => polylines = op.polylines


---------------------------------------------------------------------------
(* GeoJSON codec properties, checked under SpecGeo *)

\* op records the encoding and decoding of a polygon area
PolygonCodec == op.kind = "area" /\ op.value.shape = "Polygon"

\* C15: decoding the encoded polygon area gives the same points in the same
\* order, with no closing point added; the encoded ring is the points
\* followed by a repeat of the first point when there is one, and empty
\* otherwise.
C15_PolygonRoundTrip ==
    PolygonCodec =>
        /\ op.decoded.ok
        /\ op.decoded.value.shape = "Polygon"
        /\ op.decoded.value.points = op.value.points
        /\ op.feature.geometry # None
        /\ op.feature.geometry[1].type = "Polygon"
        /\ Len(op.feature.geometry[1].coordinates) = 1
        /\ LET ring == op.feature.geometry[1].coordinates[1]
               points == op.value.points
           IN  IF points = << >> THEN ring = << >>
               ELSE /\ Len(ring) = Len(points) + 1
                    /\ \A i \in 1..Len(points) : ring[i] = <<points[i][1], points[i][2]>>
                    /\ ring[Len(ring)] = ring[1]

C15_Witness ==
    /\ PolygonCodec
    /\ Len(op.value.points) >= 3
    /\ op.value.points[1] = op.value.points[Len(op.value.points)]
    /\ op.decoded.ok
    /\ op.decoded.value.points = op.value.points

\* C16: decoding the encoded Polyline, Text or Circle area gives an equal
\* value, and a default DrawingLayer that imports the layer's export under
\* the same layer id has the layer's polylines and stroke.
C16_CodecRoundTrips ==
    /\ op.kind = "polyline" => op.decoded = Ok(op.value)
    /\ op.kind = "text" => op.decoded = Ok(op.value)
    /\ (op.kind = "area" /\ op.value.shape = "Circle") => op.decoded = Ok(op.value)
    /\ op.kind = "export" =>
          /\ op.rebuilt.result.ok
          /\ op.rebuilt.polylines = polylines
          /\ op.rebuilt.stroke = stroke

\* the feature has a radius property that is a positive number
PositiveRadius(feature) ==
    /\ feature.properties # None
    /\ "radius" \in DOMAIN feature.properties[1]
    /\ feature.properties[1]["radius"].t = "number"
    /\ feature.properties[1]["radius"].v > 0

\* op records the decoding, as an Area, of a Point feature or of a feature
\* with no geometry
PointDecode ==
    /\ op.kind = "decode_area"
    /\ op.feature.geometry = None \/ op.feature.geometry[1].type = "Point"

\* C17: decoding a Point feature as an Area gives a Circle with the
\* feature's center and radius when the radius property is a positive
\* number, and an error when the radius is missing, not a number, zero or
\* negative, or the feature has no properties or no geometry.
C17_PointDecoding ==
    PointDecode =>
        IF op.feature.geometry # None /\ PositiveRadius(op.feature)
        THEN /\ op.decoded.ok
             /\ op.decoded.value.shape = "Circle"
             /\ op.decoded.value.center = <<op.feature.geometry[1].coordinates[1],
                                            op.feature.geometry[1].coordinates[2]>>
             /\ op.decoded.value.radius = op.feature.properties[1]["radius"].v
        ELSE ~op.decoded.ok

C17_Witness ==
    /\ PointDecode
    /\ op.feature.geometry # None
    /\ op.feature.properties # None
    /\ "radius" \in DOMAIN op.feature.properties[1]
    /\ op.feature.properties[1]["radius"].t = "number"
    /\ op.feature.properties[1]["radius"].v <= 0
    /\ ~op.decoded.ok

\* the text of the import recorded in op is not a FeatureCollection
Malformed == ~op.text.well_formed \/ op.text.doc.type # "FeatureCollection"

\* the text holds a feature whose geometry is not a LineString
HasWrongGeometry ==
    /\ ~Malformed
    /\ \E k \in 1..Len(op.text.doc.features) :
          LET f == op.text.doc.features[k]
          IN  f.geometry = None \/ f.geometry[1].type # "LineString"

LayerUnchanged == polylines = op.polylines /\ stroke = op.stroke

\* C18 as stated: an import of malformed GeoJSON, or of GeoJSON holding a
\* feature of the wrong geometry type, returns an error and leaves the
\* layer's polylines and stroke as they were.
C18_Original ==
    (op.kind = "import" /\ (Malformed \/ HasWrongGeometry)) =>
        ~op.result.ok /\ LayerUnchanged

\* C18, amended: an import of malformed GeoJSON returns an error and leaves
\* the layer as it was.  A feature of the wrong geometry type is an error
\* of the decoder of one feature only: the import skips the feature and
\* returns Ok, keeping the existing polylines as a prefix.
C18_MalformedRejected ==
    op.kind = "import" =>
        /\ Malformed => (~op.result.ok /\ LayerUnchanged)
        /\ ~Malformed =>
              /\ op.result.ok
              /\ Len(polylines) >= Len(op.polylines)
              /\ SubSeq(polylines, 1, Len(op.polylines)) = op.polylines
              /\ \A k \in 1..Len(op.text.doc.features) :
                    LET f == op.text.doc.features[k]
                    IN  (f.geometry = None \/ f.geometry[1].type # "LineString")
                            => ~PolylineTryFromFeature(f).ok

C18_Witness ==
    /\ op.kind = "import"
    /\ HasWrongGeometry
    /\ op.result.ok
    /\ op.polylines # << >>
    /\ Len(polylines) > Len(op.polylines)

\* the feature is a LineString that the import under layer_id is to add
Wanted(f, layer_id) ==
    /\ f.geometry # None
    /\ f.geometry[1].type = "LineString"
    /\ \/ layer_id = None
       \/ /\ f.properties # None
          /\ "layer_id" \in DOMAIN f.properties[1]
          /\ f.properties[1]["layer_id"] = JsonString(layer_id[1])

\* the polylines of the wanted features of the imported text, in file order
WantedPolylines ==
    LET sel == SelectSeq(op.text.doc.features, LAMBDA f : Wanted(f, op.layer_id))
    IN  [i \in 1..Len(sel) |->
            [j \in 1..Len(sel[i].geometry[1].coordinates) |->
                <<sel[i].geometry[1].coordinates[j][1],
                  sel[i].geometry[1].coordinates[j][2]>>]]

\* C19: a successful import under Some(id) adds exactly the LineString
\* features whose layer_id property is the string id, and under None every
\* LineString feature; the added polylines follow the existing ones, which
\* are unchanged, in file order.
C19_LayerIdFilter ==
    (op.kind = "import" /\ op.result.ok) =>
        polylines = op.polylines \o WantedPolylines

C19_Witness ==
    /\ op.kind = "import" /\ op.result.ok
    /\ op.layer_id # None
    /\ op.polylines # << >>
    /\ Len(WantedPolylines) >= 2
    /\ Len(WantedPolylines) < Len(op.text.doc.features)
    /\ polylines = op.polylines \o WantedPolylines


---------------------------------------------------------------------------
(* TextLayer properties, checked under SpecText *)

\* C21: in every state reachable by handle_input frames and calls of
\* start_editing, commit_edit, cancel_edit and delete, a drag session
\* (dragged_text_index set) and an open edit draft (editing set) are never
\* both active.
C21_OneEditInFlight == ~(dragged_text_index # None /\ editing # None)

\* the last operation was `call`, made with a draft open or with none
Called(call, open) ==
    op.kind = "text" /\ op.call = call /\ (op.editing # None) = open

\* the draft of the last operation was applied whole: the text at its index
\* replaced, or one text appended when it has no index
DraftApplied ==
    LET applied(draft) ==
            IF draft.index = None
            THEN texts = Append(op.texts, draft.properties)
            ELSE /\ draft.index[1] \in 1..Len(op.texts)
                 /\ texts = [op.texts EXCEPT ![draft.index[1]] = draft.properties]
    IN  applied(op.editing[1])

CommitApplies == Called("commit_edit", TRUE) => DraftApplied /\ editing = None

CancelDiscards == Called("cancel_edit", TRUE) => texts = op.texts /\ editing = None

NoDraftNoChange ==
    Called("commit_edit", FALSE) \/ Called("cancel_edit", FALSE)
        => texts = op.texts /\ editing = None

DraftNotReflected ==
    /\ op.kind = "text" /\ op.editing # None
    /\ op.call \notin {"commit_edit", "delete"}
    => texts = op.texts

\* C22: commit_edit with an open draft applies the whole draft (replaces the
\* edited text, or appends one new text) and closes the session; cancel_edit
\* closes the session and leaves the texts unchanged; commit_edit or
\* cancel_edit with no open draft changes nothing; until commit the texts do
\* not reflect the draft.
C22_DraftConsumedOnce ==
    CommitApplies /\ CancelDiscards /\ NoDraftNoChange /\ DraftNotReflected

---------------------------------------------------------------------------
(* Layer mode properties, checked under SpecModes *)

\* the last frame went to a layer in Disabled mode
DisabledFrame ==
    /\ op.kind \in {"area", "drawing", "text"}
    /\ IF op.kind = "text" THEN op.arg.mode = "Disabled" ELSE op.mode = "Disabled"

\* the layer of the last frame is as it was before the frame
LayerAsBefore ==
    IF op.kind = "area"
    THEN areas = op.areas /\ dragged_object = op.dragged_object
    ELSE IF op.kind = "drawing"
    THEN polylines = op.polylines
    ELSE /\ texts = op.texts /\ editing = op.editing
         /\ dragged_text_index = op.dragged_text_index

\* C23: in Disabled mode handle_input of AreaLayer, DrawingLayer and
\* TextLayer returns false for every pointer input and leaves the layer's
\* shapes, drag state and edit state unchanged.
C23_DisabledRenderOnly == DisabledFrame => ~op.handled /\ LayerAsBefore

\* a Disabled frame that carries a drag reaches an AreaLayer in the middle
\* of a node drag
C23_Witness ==
    /\ DisabledFrame /\ op.kind = "area"
    /\ op.dragged_object # None /\ op.resp.dragged /\ op.resp.hovered

---------------------------------------------------------------------------
(* Polling properties, checked under SpecLive *)

\* the TileIds of the zoom level of SpecLive
LiveTiles == {TileId(MIN_ZOOM + 1, x, y) : x \in 0..1, y \in 0..1}

\* a frame that left a visible tile Loading asked for another frame
LoadingRequestsRepaint ==
    frames >= 1 /\ (\E t \in Visible : tiles[t].tag = "Loading") => repaint

\* the fetch of a visible tile has completed and the entry is still Loading
FetchCompleted(t) == t \in DOMAIN tiles /\ t \in Visible /\ Ready(tiles[t])

\* the entry of the tile is Loaded or Failed
Resolved(t) == t \in DOMAIN tiles /\ tiles[t].tag \in {"Loaded", "Failed"}

\* C24: while a visible tile is Loading at the end of a frame's poll, that
\* frame requests another frame; hence a visible tile whose fetch has
\* completed is eventually Loaded or Failed without further user input,
\* unless it leaves the view.
C24_LoadingKeepsPolling ==
    /\ []LoadingRequestsRepaint
    /\ \A t \in LiveTiles : FetchCompleted(t) ~> (Resolved(t) \/ t \notin Visible)

\* C24 witness: a frame without input, run because a repaint was requested,
\* resolved a visible tile whose fetch had completed
C24_Witness ==
    /\ last.resp = NoInput /\ frames >= 2
    /\ \E t \in Visible \cap VisibleBefore \cap DOMAIN Before :
          Ready(Before[t]) /\ tiles[t].tag \in {"Loaded", "Failed"}

---------------------------------------------------------------------------
(* Cache growth, checked under Spec *)

\* C25: the set of TileIds in the cache only grows.  No step removes an
\* entry, and every entry a step creates is for a tile that is in the
\* visible set of the frame that step is.
C25_CacheOnlyGrows ==
    [][/\ DOMAIN tiles \subseteq DOMAIN tiles'
       /\ (DOMAIN tiles' \ DOMAIN tiles) \subseteq Drawn(center', zoom', rect')]_vars

\* C25 witness: the last frame created an entry for a tile that came into
\* view and kept the entry of a tile that is out of view
C25_Witness ==
    /\ \E t \in DOMAIN tiles \ DOMAIN Before : t \in Visible
    /\ \E u \in DOMAIN Before : u \notin Visible /\ u \in DOMAIN tiles


---------------------------------------------------------------------------
(* Tile index range, checked under SpecView *)

\* the u32 index u, kept as <<high 16 bits, low 16 bits>>, is below n <= 2^19
U32Below(u, n) == u[1] < 16 /\ u[1] * 65536 + u[2] < n

\* z = zoom of every visible tile: the part of C26 that lib.rs 312-319
\* guarantees by construction
VisibleAtZoom == \A t \in Visible : t.z = zoom

\* C26 as claimed: every TileId the visible-tile computation yields has z
\* equal to the current zoom and indices 0 <= x < 2^z and 0 <= y < 2^z, in
\* every reachable viewport state, a widget larger than the world and a
\* viewport whose edge lies on the world's edge included.
C26_TilesInWorld ==
    \A t \in Visible :
        /\ t.z = zoom
        /\ U32Below(t.x, 2 ^ t.z)
        /\ U32Below(t.y, 2 ^ t.z)


---------------------------------------------------------------------------
(* Scroll zoom and gestures without effect, checked under SpecView *)

\* the last frame's scroll event changed the zoom
ScrollZoomed ==
    /\ frames >= 1 /\ Resp.hovered /\ Resp.hover_pos # None /\ Resp.scroll # 0
    /\ ScrollStep # 0

\* the projector before and after the scroll part of the last frame
ProjBeforeScroll == MapProjection(last.afterDbl.zoom, last.afterDbl.center, rect)

ProjAfterScroll == MapProjection(zoom, center, rect)

\* C27: after a scroll event that changes the zoom level, in or out, the
\* geographic point that was under the cursor before the zoom change is
\* under the cursor, at the same widget pixel, after it.
C27_ScrollKeepsCursorPoint ==
    ScrollZoomed =>
        LET ptr == Resp.hover_pos[1]
            target == unproject(ProjBeforeScroll, Pos2(ProjBeforeScroll.zoom, ptr))
        IN  /\ unproject(ProjAfterScroll, Pos2(zoom, ptr)) = target
            /\ project(ProjAfterScroll, target) = Pos2(zoom, ptr)
            /\ mouse_pos = Some(target)

\* C27 witness: a scroll-out with the cursor away from the widget's center
\* lowered the zoom and moved the center
C27_Witness ==
    /\ ScrollZoomed /\ ScrollStep = -1
    /\ Resp.hover_pos[1] # WidgetCenter
    /\ center # last.afterDbl.center


\* the scroll part of the last frame had a scroll event
Scrolled(s) == Resp.hovered /\ Resp.hover_pos # None /\ Resp.scroll = s

\* the result of the last frame's scroll part is what that part started from
ScrollPartIdle == zoom = last.afterDbl.zoom /\ center = last.afterDbl.center

\* no gesture of the last frame had its precondition met
NoGestureMet ==
    /\ frames >= 1 /\ ~Resp.dragged
    /\ Resp.double_clicked /\ Resp.interact_pointer_pos # None
          => last.pre.zoom = MAX_ZOOM
    /\ Scrolled(1) => last.pre.zoom = MAX_ZOOM
    /\ Scrolled(-1) => last.pre.zoom = MIN_ZOOM \/ ScrollOutTooSmall

\* C28: a gesture whose precondition is not met changes neither center nor
\* zoom.  The pan part of a frame with no drag, the double-click part at
\* MAX_ZOOM, the scroll part of a scroll-in at MAX_ZOOM, of a scroll-out at
\* MIN_ZOOM and of a rejected scroll-out each leave (center, zoom) as the
\* part found them, and a frame made of such gestures only ends with the
\* (center, zoom) it started with, however many such frames came before.
C28_UnmetGestureNoEffect ==
    frames >= 1 =>
        /\ ~Resp.dragged => last.afterPan = last.pre.center
        /\ Resp.double_clicked /\ last.pre.zoom = MAX_ZOOM =>
              last.afterDbl = [center |-> last.afterPan, zoom |-> MAX_ZOOM]
        /\ Scrolled(1) /\ last.afterDbl.zoom = MAX_ZOOM => ScrollPartIdle
        /\ Scrolled(-1) /\ last.afterDbl.zoom = MIN_ZOOM => ScrollPartIdle
        /\ ScrollOutTooSmall => ScrollPartIdle
        /\ NoGestureMet => center = last.pre.center /\ zoom = last.pre.zoom

\* C28 witness: the second frame in a row is a double-click with a scroll-in
\* at MAX_ZOOM and no drag, on a map whose center is outside the range a pan
\* would clamp it to
C28_Witness ==
    /\ frames = 2 /\ NoGestureMet
    /\ Resp.double_clicked /\ Resp.interact_pointer_pos # None /\ Scrolled(1)
    /\ zoom = MAX_ZOOM
    /\ HandlePan(center, zoom, rect, [Resp EXCEPT !.dragged = TRUE]) # center


---------------------------------------------------------------------------
(* Drag gestures on polygon nodes, checked under SpecArea *)

\* the node the frame recorded in op had grabbed, and the frame's pointer
GrabbedNode == op.grabbed[1]

DragPointer == op.resp.interact_pointer_pos[1]

\* the frame recorded in op dragged a node to a position is_move_valid
\* rejects
RejectedMove ==
    /\ DragsNode
    /\ ~is_move_valid(op.areas, Projection, GrabbedNode.area_index,
                      GrabbedNode.node_index, DragPointer)

\* the frame recorded in op continued the gesture under way with a pointer
\* position is_move_valid accepts
ValidMove ==
    /\ DragsNode /\ ~op.resp.drag_started
    /\ is_move_valid(op.areas, Projection, GrabbedNode.area_index,
                     GrabbedNode.node_index, DragPointer)

\* a rejected move leaves the areas alone, and unless the frame is also the
\* drag-stop the node stays the dragged object and the input is handled
RejectedKeepsDrag ==
    RejectedMove =>
        /\ areas = op.areas
        /\ ~op.resp.drag_stopped => dragged_object = op.grabbed /\ op.handled

\* a frame clears the dragged object only with a drag-stop; a drag-start
\* begins another gesture and replaces it by what is under the pointer
ClearedOnlyByStop ==
    (op.kind = "area" /\ op.dragged_object # None /\ dragged_object = None) =>
        op.resp.drag_stopped \/ op.resp.drag_started

\* the frame after a rejected move, when it continues the gesture with a
\* valid pointer position, moves the same node to that position
ValidAfterRejected ==
    (RejectedMove /\ dragged_object # None /\ ValidMove') =>
        /\ op'.grabbed = dragged_object
        /\ areas' = [areas EXCEPT
                        ![dragged_object[1].area_index]
                            .points[dragged_object[1].node_index] =
                                unproject(Projection, op'.resp.interact_pointer_pos[1])]

\* C29: a rejected node move does not end the drag.  After a drag frame whose
\* move was rejected the same node is still the dragged object and the frame
\* reports the input as handled; a later frame of the same gesture whose
\* pointer position is valid moves the node to that position; and the
\* dragged object is cleared only by drag-stop.
C29_RejectedMoveKeepsDrag ==
    /\ [](RejectedKeepsDrag /\ ClearedOnlyByStop)
    /\ [][ValidAfterRejected]_vars

\* C29 witness: a move was rejected with the pointer off the hovered widget,
\* the frame was handled, the node is still the dragged object and a frame
\* can follow
C29_Witness ==
    /\ RejectedMove /\ ~op.resp.drag_stopped /\ ~op.resp.hovered
    /\ op.handled /\ dragged_object = op.grabbed /\ areas = op.areas
    /\ frames < MaxAreaFrames


\* the point r of the line through p and q lies on the closed segment p-q
Within(p, q, r) ==
    /\ (IF p[1] <= q[1] THEN p[1] <= r[1] /\ r[1] <= q[1]
                         ELSE q[1] <= r[1] /\ r[1] <= p[1])
    /\ (IF p[2] <= q[2] THEN p[2] <= r[2] /\ r[2] <= q[2]
                         ELSE q[2] <= r[2] /\ r[2] <= p[2])

\* an end of one of the closed segments p-q and r-s lies on the other
Touches(p, q, r, s) ==
    \/ Cross(p, q, r) = 0 /\ Within(p, q, r)
    \/ Cross(p, q, s) = 0 /\ Within(p, q, s)
    \/ Cross(r, s, p) = 0 /\ Within(r, s, p)
    \/ Cross(r, s, q) = 0 /\ Within(r, s, q)

\* the closed segments p-q and r-s share a point: they cross, touch or
\* overlap on their common line
SharePoint(p, q, r, s) == Crosses(p, q, r, s) \/ Touches(p, q, r, s)

\* a polygon of n nodes: edge i runs from node i to node NextIdx(i, n); two
\* edges are adjacent when they share a node
AdjacentEdges(i, j, n) == j = NextIdx(i, n) \/ i = NextIdx(j, n)

\* no two edges of the polygon that are not adjacent share any point, in
\* the screen space of the projector
StrictlySimple(pts) ==
    LET n == Len(pts)
        sp == [i \in 1..n |-> project(Projection, pts[i])]
    IN  \A i \in 1..n : \A j \in 1..n :
            (i < j /\ ~AdjacentEdges(i, j, n)) =>
                ~SharePoint(sp[i], sp[NextIdx(i, n)], sp[j], sp[NextIdx(j, n)])

AllStrictlySimple(ar) == \A a \in 1..Len(ar) : StrictlySimple(ar[a].points)

\* C30 as claimed: a Modify-mode drag frame under a fixed projector takes
\* strictly simple polygons to strictly simple polygons: no two edges that
\* are not adjacent share any point (no crossing, no touching, no collinear
\* overlap).
C30_StaysStrictlySimple ==
    [][(AllStrictlySimple(areas) /\ op'.kind = "area" /\ ~op'.inserted)
          => AllStrictlySimple(areas')]_vars


---------------------------------------------------------------------------
(* segments_intersect properties, checked under SpecSeg *)

\* the call recorded in op
SegCall == op.kind = "segments"

\* the four points are on one line (a segment that is a single point on the
\* line of the other included)
Collinear4(p, q, r, s) ==
    /\ Cross(p, q, r) = 0 /\ Cross(p, q, s) = 0
    /\ Cross(r, s, p) = 0 /\ Cross(r, s, q) = 0

\* C31 as claimed: segments_intersect reports an intersection only for a
\* general-position crossing; whenever the segments are collinear or merely
\* touch (an endpoint of one lies on the other, or they share an endpoint)
\* it returns false.
C31_Original ==
    SegCall =>
        ((Collinear4(op.p1, op.q1, op.p2, op.q2)
          \/ Touches(op.p1, op.q1, op.p2, op.q2)) => ~op.result)

\* C31 amended: segments_intersect reports an intersection only for segments
\* that share a point and are not collinear; for every configuration in
\* which the four points are collinear it returns false, and for segments
\* that are not collinear and merely touch (an endpoint of one lies on the
\* other, or they share an endpoint) it returns true.
C31_TouchReportedCollinearNot ==
    SegCall =>
        /\ op.result => /\ SharePoint(op.p1, op.q1, op.p2, op.q2)
                        /\ ~Collinear4(op.p1, op.q1, op.p2, op.q2)
        /\ Collinear4(op.p1, op.q1, op.p2, op.q2) => ~op.result
        /\ (Touches(op.p1, op.q1, op.p2, op.q2)
            /\ ~Collinear4(op.p1, op.q1, op.p2, op.q2)) => op.result

\* C31 witness: a touch of two segments that do not cross and are not
\* collinear, reported as an intersection
C31_Witness ==
    /\ SegCall /\ op.result
    /\ Touches(op.p1, op.q1, op.p2, op.q2)
    /\ ~Crosses(op.p1, op.q1, op.p2, op.q2)
    /\ ~Collinear4(op.p1, op.q1, op.p2, op.q2)


\* r lies on the segment p-q and is neither p nor q
Inside(p, q, r) == Cross(p, q, r) = 0 /\ Within(p, q, r) /\ r # p /\ r # q

\* an endpoint of one segment lies in the interior of the other, the
\* segments not being collinear
TJunction(p, q, r, s) ==
    /\ ~Collinear4(p, q, r, s)
    /\ Inside(p, q, r) \/ Inside(p, q, s) \/ Inside(r, s, p) \/ Inside(r, s, q)

\* the segments have an endpoint in common and are not collinear
MeetAtEndpoint(p, q, r, s) ==
    /\ ~Collinear4(p, q, r, s)
    /\ p = r \/ p = s \/ q = r \/ q = s

\* the directions of the segments are parallel (a single point has no
\* direction and counts as parallel)
Parallel(p, q, r, s) ==
    (q[1] - p[1]) * (s[2] - r[2]) - (q[2] - p[2]) * (s[1] - r[1]) = 0

\* C32: segments_intersect returns true when the two segments cross at an
\* interior point of both, when an endpoint of one lies in the interior of
\* the other (T-junction) and when the two meet at a shared endpoint without
\* being collinear; it returns false for parallel segments, for disjoint
\* non-parallel segments, for every configuration of four collinear points
\* and when one segment is a single point.
C32_SegmentsIntersectCases ==
    SegCall =>
        /\ Crosses(op.p1, op.q1, op.p2, op.q2) => op.result
        /\ TJunction(op.p1, op.q1, op.p2, op.q2) => op.result
        /\ MeetAtEndpoint(op.p1, op.q1, op.p2, op.q2) => op.result
        /\ Parallel(op.p1, op.q1, op.p2, op.q2) => ~op.result
        /\ ~SharePoint(op.p1, op.q1, op.p2, op.q2) => ~op.result
        /\ Collinear4(op.p1, op.q1, op.p2, op.q2) => ~op.result
        /\ (op.p1 = op.q1 \/ op.p2 = op.q2) => ~op.result

\* C32 witness: a T-junction whose segments have no endpoint in common,
\* reported as an intersection
C32_Witness ==
    /\ SegCall /\ op.result
    /\ TJunction(op.p1, op.q1, op.p2, op.q2)
    /\ ~MeetAtEndpoint(op.p1, op.q1, op.p2, op.q2)


---------------------------------------------------------------------------
(* Node hit-testing, checked under SpecArea *)

\* the frame recorded in op is a drag-start that ran find_object_at
DragStartFrame ==
    /\ op.kind = "area" /\ ~op.inserted
    /\ op.resp.drag_started /\ op.resp.interact_pointer_pos # None

\* the squared screen distance of node n of area a from the frame's pointer
NodeDistSq(a, n) ==
    LengthSq(Sub(project(Projection, op.areas[a].points[n]), DragPointer))

\* the nodes of area a within 3 * node_radius of the pointer
NodesInReach(a) ==
    {n \in 1..Len(op.areas[a].points) : NodeDistSq(a, n) < ToleranceSq(Projection, 3)}

AreasInReach == {a \in 1..Len(op.areas) : NodesInReach(a) # {}}

\* the part of C33 about areas: the node grabbed is a node in reach of the
\* last area that has one, and nothing is grabbed when no node is in reach
TopmostAreaGrabbed ==
    DragStartFrame =>
        IF AreasInReach = {} THEN op.grabbed = None
        ELSE /\ op.grabbed # None
             /\ GrabbedNode.area_index \in AreasInReach
             /\ \A a \in AreasInReach : a <= GrabbedNode.area_index
             /\ GrabbedNode.node_index \in NodesInReach(GrabbedNode.area_index)

\* C33 as claimed: node hit-testing at drag start selects, among the polygon
\* nodes within 3 * node_radius of the pointer, the nearest one; when nodes
\* of several areas are within tolerance, a node of the area added last is
\* selected.
C33_NearestNodeGrabbed ==
    /\ TopmostAreaGrabbed
    /\ (DragStartFrame /\ op.grabbed # None) =>
          \A n \in NodesInReach(GrabbedNode.area_index) :
              NodeDistSq(GrabbedNode.area_index, GrabbedNode.node_index)
                  <= NodeDistSq(GrabbedNode.area_index, n)


---------------------------------------------------------------------------
(* Circle properties, checked under SpecCircle *)

\* the frame recorded in op dragged the object of the given kind
DragsObject(kind) ==
    /\ op.kind = "area" /\ ~op.inserted
    /\ op.resp.dragged /\ op.resp.interact_pointer_pos # None
    /\ op.grabbed # None /\ op.grabbed[1].kind = kind

\* a center drag moves the center to the pointer and leaves the radius
CenterDragKeepsRadius ==
    DragsObject("CircleCenter") =>
        areas = [op.areas EXCEPT ![op.grabbed[1].area_index].center =
                                     unproject(Projection, DragPointer)]

\* C34 as claimed: every circle keeps a radius greater than 0: starting from
\* circles with positive radius, after any sequence of Modify-mode gestures
\* (center drags and radius-handle drags, a radius drag that brings the
\* pointer onto the center included) every circle's radius is > 0, and a
\* center drag leaves the radius unchanged.
C34_RadiusStaysPositive ==
    /\ \A a \in 1..Len(areas) : areas[a].shape = "Circle" => areas[a].radius > 0
    /\ CenterDragKeepsRadius


---------------------------------------------------------------------------
(* Draw-mode properties, checked under SpecDraw *)

\* the frame recorded in op ran handle_draw_input
DrawsFrame == op.kind = "draw"

\* the frame's pointer position, unprojected
DrawnGeo == unproject(Projection, op.resp.interact_pointer_pos[1])

\* the polylines with the point g appended to the last one
AppendedToLast(pl, g) == [pl EXCEPT ![Len(pl)] = Append(@, g)]

\* a drag-start opens exactly one polyline, which gets the pointer position
\* when the frame is a drag frame too
DragStartOpens ==
    (DrawsFrame /\ op.resp.drag_started /\ ~op.resp.clicked) =>
        polylines = Append(op.polylines,
                           IF op.resp.dragged /\ op.resp.interact_pointer_pos # None
                           THEN <<DrawnGeo>> ELSE << >>)

\* a later drag frame of the gesture appends the pointer position to the
\* last polyline
DragAppends ==
    (/\ DrawsFrame /\ op.resp.dragged /\ ~op.resp.drag_started /\ ~op.resp.clicked
     /\ op.resp.interact_pointer_pos # None /\ Len(op.polylines) > 0) =>
        polylines = AppendedToLast(op.polylines, DrawnGeo)

\* a shift-click while a polyline exists appends to the last polyline
ShiftClickAppends ==
    (/\ DrawsFrame /\ op.resp.clicked /\ op.resp.shift
     /\ ~op.resp.drag_started /\ ~op.resp.dragged
     /\ op.resp.interact_pointer_pos # None /\ Len(op.polylines) > 0) =>
        polylines = AppendedToLast(op.polylines, DrawnGeo)

\* no point of a polyline other than the last is changed or removed, and
\* the last one only grows at its end
OthersUntouched ==
    DrawsFrame =>
        /\ Len(polylines) >= Len(op.polylines)
        /\ \A k \in 1..Len(op.polylines) :
              /\ Len(polylines[k]) >= Len(op.polylines[k])
              /\ SubSeq(polylines[k], 1, Len(op.polylines[k])) = op.polylines[k]
              /\ k < Len(op.polylines) => polylines[k] = op.polylines[k]

\* C35: in Draw mode a drag-start opens exactly one new polyline and every
\* later drag frame of that gesture appends exactly one point, the
\* unprojected pointer position, to the end of that polyline; a shift-click
\* while a polyline exists appends exactly one point to the last polyline
\* and creates no polyline; no Draw-mode gesture changes or removes a point
\* of any polyline other than the last.
C35_DrawGestures ==
    DragStartOpens /\ DragAppends /\ ShiftClickAppends /\ OthersUntouched

\* C35 witness: a drag frame appended the pointer position to a polyline
\* that only a drag-start can have opened, with other polylines before it
C35_Witness ==
    /\ DrawsFrame /\ op.resp.dragged /\ ~op.resp.drag_started
    /\ Len(op.polylines) >= 2
    /\ Len(op.polylines[Len(op.polylines)]) = 1
    /\ polylines = AppendedToLast(op.polylines, DrawnGeo)


---------------------------------------------------------------------------
(* Erase results, checked under SpecDraw *)

\* the runs <<a, b>> of the polyline line that the sub-line sub can be made
\* of: sub is line[a..b] in order, with at most one other point (a split
\* point) before it and at most one after it
RunsOf(sub, line) ==
    {r \in (1..Len(line) + 1) \X (0..Len(line)) :
        /\ r[1] <= r[2] + 1
        /\ \E pre \in {0, 1}, post \in {0, 1} :
              /\ Len(sub) = pre + (r[2] - r[1] + 1) + post
              /\ SubSeq(sub, pre + 1, Len(sub) - post) = SubSeq(line, r[1], r[2])}

\* out is made of sub-lines of the polylines of inp: of is the polyline each
\* sub-line comes from, in order, and two sub-lines of one polyline come in
\* their order along the line
SubLinesInOrder(out, inp, of) ==
    /\ \A i \in 1..Len(out) : RunsOf(out[i], inp[of[i]]) # {}
    /\ \A i \in 1..Len(out) : \A j \in 1..Len(out) :
          i < j =>
              /\ of[i] <= of[j]
              /\ of[i] = of[j] =>
                    \E ri \in RunsOf(out[i], inp[of[i]]), rj \in RunsOf(out[j], inp[of[j]]) :
                        ri[2] < rj[1]

\* C36: after erase_at every polyline of the layer has at least 2 points:
\* each input polyline is replaced by zero or more sub-lines in their
\* original order along the line, sub-lines of fewer than 2 points are never
\* emitted, and the points of each sub-line other than interpolated split
\* points are points of the input polyline in their original order.
C36_ErasedSubLines ==
    ErasesAt =>
        /\ \A k \in 1..Len(polylines) : Len(polylines[k]) >= 2
        /\ polylines = << >>
           \/ \E of \in [1..Len(polylines) -> 1..Len(op.polylines)] :
                 SubLinesInOrder(polylines, op.polylines, of)

\* C36 witness: an erase cut one polyline into two sub-lines and dropped a
\* polyline of fewer than 2 points
C36_Witness ==
    /\ ErasesAt
    /\ Len(op.polylines) = 2 /\ Len(op.polylines[2]) < 2
    /\ Len(polylines) = 2
    /\ polylines[1] # polylines[2]


---------------------------------------------------------------------------
(* Text drafts and frames, checked under SpecText *)

\* the operation recorded in op is a Modify-mode frame that found a draft open
DraftOpenFrame ==
    /\ op.kind = "text" /\ op.call = "handle_input"
    /\ op.arg.mode = "Modify" /\ op.editing # None

\* C37: while an edit draft is open on a TextLayer in Modify mode,
\* handle_input changes nothing in the layer for any pointer input (no text
\* moves, no drag starts or stops, the draft is not replaced and no new
\* draft opens) and returns whether the pointer hovers the map.
C37_DraftBlocksInput ==
    DraftOpenFrame =>
        /\ texts = op.texts
        /\ editing = op.editing
        /\ dragged_text_index = op.dragged_text_index
        /\ op.handled = op.arg.resp.hovered

\* C37 witness: with the draft of a new text open, a click on an existing
\* text left the draft and the layer as they were
C37_Witness ==
    /\ DraftOpenFrame /\ op.editing[1].index = None
    /\ op.arg.resp.clicked /\ op.arg.resp.interact_pointer_pos # None
    /\ find_text_at(op.texts, Projection, op.arg.resp.interact_pointer_pos[1]) # None
    /\ editing = op.editing /\ texts = op.texts /\ op.handled


\* the texts of TextLayers are told apart by their colour, which no
\* operation of the layer and no edit of the dialog changes: the text a
\* draft was started on is the one that has the draft's colour
StartedOn(j) == op.texts[j].color = op.editing[1].properties.color

\* C38: after start_editing(i), any sequence of delete calls, and then
\* commit_edit, the committed draft replaces the text element that
\* start_editing was called on, or no element if that element was deleted
\* meanwhile; no other text element is overwritten.
C38_CommitHitsEditedText ==
    Called("commit_edit", TRUE) /\ op.editing[1].index # None =>
        /\ Len(texts) = Len(op.texts)
        /\ \A j \in 1..Len(op.texts) :
              texts[j] = IF StartedOn(j) THEN op.editing[1].properties
                         ELSE op.texts[j]


---------------------------------------------------------------------------
(* Imports under a layer_id and decoders across kinds, checked under       *)
(* SpecGeo                                                                 *)

\* the feature carries the string id as its layer_id property
HasLayerId(f, id) ==
    /\ f.properties # None
    /\ "layer_id" \in DOMAIN f.properties[1]
    /\ f.properties[1]["layer_id"] = JsonString(id)

\* the import recorded in op was given a layer_id that no feature of its
\* input carries
NoFeatureMatches ==
    /\ op.kind = "import" /\ op.layer_id # None
    /\ ~Malformed
    /\ \A k \in 1..Len(op.text.doc.features) :
          ~HasLayerId(op.text.doc.features[k], op.layer_id[1])

\* the stroke the collection's own members stroke_width and stroke_color
\* leave of the stroke st
MembersStroke(members, st) ==
    Stroke(IF "stroke_width" \in DOMAIN members /\ members["stroke_width"].t = "number"
           THEN AsF32(members["stroke_width"].v) ELSE st.width,
           IF /\ "stroke_color" \in DOMAIN members
              /\ members["stroke_color"].t = "string"
              /\ from_hex(members["stroke_color"].v).ok
           THEN from_hex(members["stroke_color"].v).value ELSE st.color)

\* C39 as stated: from_geojson_str called with a layer_id that matches no
\* feature of the input leaves the whole layer unchanged: no polyline is
\* added and the stroke width and color are the same as before the call.
C39_Original == NoFeatureMatches => LayerUnchanged

\* C39, amended: from_geojson_str called with a layer_id that matches no
\* feature of the input adds no polyline and takes no stroke from a
\* feature; the stroke_width and stroke_color members of the collection
\* itself are applied to the layer's stroke whatever the layer_id.
C39_NoMatchKeepsPolylines ==
    NoFeatureMatches =>
        /\ op.result.ok
        /\ polylines = op.polylines
        /\ stroke = MembersStroke(op.text.doc.members, op.stroke)

\* C39 witness: an import of the export of layer "a" under another id added
\* nothing to a layer of several polylines and changed its stroke, although
\* the file's features carry stroke properties of their own
C39_Witness ==
    /\ NoFeatureMatches
    /\ Len(op.text.doc.features) >= 2
    /\ \E k \in 1..Len(op.text.doc.features) :
          /\ op.text.doc.features[k].properties # None
          /\ "layer_id" \in DOMAIN op.text.doc.features[k].properties[1]
    /\ Len(op.polylines) >= 2 /\ polylines = op.polylines
    /\ stroke.width # op.stroke.width /\ stroke.color # op.stroke.color


\* the operation recorded in op encoded a shape of the kind
Encoded(kind) == op.kind = kind /\ "accepted" \in DOMAIN op

\* the decoders of the other kinds reject the encoded feature
CrossKindRejected ==
    /\ Encoded("text") => ~op.accepted.area /\ ~op.accepted.polyline
    /\ Encoded("area") => ~op.accepted.text /\ ~op.accepted.polyline
    /\ Encoded("polyline") => ~op.accepted.area /\ ~op.accepted.text

\* the decoder of the shape's own kind accepts the encoded feature
OwnKindAccepted ==
    /\ Encoded("text") => op.accepted.text
    /\ Encoded("area") => op.accepted.area
    /\ Encoded("polyline") => op.accepted.polyline

\* C40: the Feature mappings are one-to-one across shape kinds: the
\* encoding of a Text is rejected by the Area and Polyline decoders, the
\* encoding of a Circle or Polygon area by the Text and Polyline decoders,
\* the encoding of a Polyline by the Area and Text decoders, so each encoded
\* feature decodes as exactly one kind of shape.
C40_OneKindPerFeature == CrossKindRejected /\ OwnKindAccepted

=============================================================================
